---- MODULE Spec2Model ----
(***************************************************************************)
(* p2774::object_pool (inc/object_pool.hpp, first translation unit) over   *)
(* internal::lockfree_stack (src/race_free.cpp).  Every access to the      *)
(* stack top, to a node's next link, to a node's value and to the          *)
(* semaphore is one step of the calling thread, so that every interleaving *)
(* of lease(), ~handle(), lease_all() and ~snapshot() is explored.         *)
(*                                                                         *)
(* p2774::race_free (inc/race_free.hpp) runs on the same stack, block list *)
(* and semaphore; its nodes hold a std::optional<T>.                       *)
(*                                                                         *)
(* p2774::tls (inc/tls.hpp, first translation unit): buckets of nodes      *)
(* keyed by the thread id plus the list of all nodes from root.  Every     *)
(* atomic load and compare-exchange of local() is one step.  The copyable  *)
(* variant (unnamed/part_001) keeps one list per bucket and no root.       *)
(***************************************************************************)
EXTENDS Integers, Sequences, FiniteSets, TLC

\* ------------------------------------------------------------------ bounds
NumThreads == 2      \* threads using one pool
MaxBlocks == 2       \* blocks the allocator can hand out before it fails
MaxTag == 5          \* no new operation starts once the tag reached this
MaxInput == 2        \* inputs of the reduction are 1..MaxInput
MaxSum == 2          \* inputs are added while their sum stays <= MaxSum
GateThreads == 3     \* threads of the contended first lease() scenario
NumTlsThreads == 3   \* threads calling tls::local()
MaxCalls == 2        \* local() calls a thread makes
MaxClears == 1       \* clear() calls on one tls container
MaxTlsNodes == 4     \* tls nodes the allocator can hold at once

NodesPerBlock == 2   \* nodes_per_block<T>, here of a T with sizeof(node<T>) in 169..252

Null == 0            \* nullptr
PastEnd == -1        \* block->nodes + nodes_per_block<T>, one past the last node
NoSnap == -2         \* the thread owns no snapshot object

Threads == 1..NumThreads
BlockIds == 1..MaxBlocks
Nodes == 1..(MaxBlocks * NodesPerBlock)

\* block->nodes + i of block b
NodeAt(b, i) == (b - 1) * NodesPerBlock + i + 1
BlockOf(n) == ((n - 1) \div NodesPerBlock) + 1

\* a publish that pushes the node the caller keeps as well
PublishHeadAll(b) == NodeAt(b, 0)

\* line 209: block->nodes + 1, the head of the published chain
PublishHead(b) == NodeAt(b, 1)

\* line 211: block->nodes, the node kept for the caller
KeptNode(b) == NodeAt(b, 0)

VARIABLES
  top,        \* lockfree_stack::top_ : [head, tag]
  next,       \* node::next of every node
  value,      \* node::value of every node
  blocks,     \* object_pool::blocks (head of the block list)
  blockNext,  \* block::next of every block
  lock,       \* object_pool::lock (binary semaphore): 1 free, 0 taken
  allocd,     \* blocks the allocator has handed out and not got back
  freed,      \* blocks destroyed and deallocated by ~object_pool, in order
  life,       \* "alive", "destroying", "destroyed", "crashed"
  dptr,       \* ~object_pool: the loop variable ptr
  pc,         \* per thread: the statement it is at
  old,        \* per thread: the local tagged_ptr old
  nxt,        \* per thread: the value read from old.head->next
  blk,        \* per thread: the local block of allocate_new_block
  held,       \* per thread: nodes of its live handles
  rel,        \* per thread: the node of the handle being destroyed
  snap,       \* per thread: head of its live snapshot, or NoSnap
  tail,       \* per thread: ~snapshot's local tail
  acc,        \* per thread: the pending  *handle += v
  total,      \* sum of the inputs added so far
  solo,       \* the last release or drain, while nobody else has stepped since
  drained,    \* the stack was emptied by lease_all() and is empty since
  hnd,        \* race_free, per thread: its handle objects [owner, ptr], in scope
  bucketHead, \* tls: bucket_list::head of every bucket
  root,       \* tls: atomic_unordered_map::root
  nodeValue,  \* tls: node::value
  owner,      \* tls: node::owner
  bucketNext, \* tls: node::bucket_next (node::next in the copyable variant)
  listNext,   \* tls: node::list_next
  nodeMem,    \* tls: per node "free", "raw" (allocated) or "live" (constructed)
  ctorMem,    \* tls: what the constructor allocated: "buckets", "functor"
  allocations,\* tls: allocate() calls the counting allocator has seen, or NotRigged
  built,      \* tls: "no", "storage", "yes", "failed", "destroying", "destroyed"
  tpc,        \* tls, per thread: the statement of local() it is at
  tnode,      \* tls, per thread: the local ptr / node
  calls,      \* tls, per thread: local() calls started since the last clear()
  results,    \* tls, per thread: <<node, flag>> of its calls since the last clear()
  clears,     \* tls: clear() calls so far
  cleared,    \* tls: the threads whose entry the last clear() destroyed
  initCalls,  \* tls: invocations of the initializer so far
  tlsTotal,   \* tls: sum of the inputs added so far
  copyHead,   \* tls copy: the bucket heads of the copy
  copies,     \* tls copy: copies made so far
  buckets,    \* tls, movable: atomic_unordered_map::buckets, an array or Null
  arrMem,     \* tls, movable: per bucket array "free", "live" or "deleted"
  arrHead,    \* tls, movable: per bucket array the head of each of its lists
  bptr,       \* tls, movable, per thread: the local bptr of local()
  buckets2,   \* tls, movable: buckets of a second container, an array or Null
  gone,       \* tls, copyable: the containers whose destructor has run
  listHead,   \* tls, single list: tls::head
  walk        \* tls, single list: the iterator of a traversal and what it saw

poolVars == <<top, next, value, blocks, blockNext, lock, allocd, freed, life, dptr,
              pc, old, nxt, blk, held, rel, snap, tail, acc, total, solo, drained,
              hnd>>

tlsVars == <<bucketHead, root, nodeValue, owner, bucketNext, listNext, nodeMem,
             ctorMem, allocations, built, tpc, tnode, calls, results, clears,
             cleared, initCalls, tlsTotal, copyHead, copies, buckets, arrMem,
             arrHead, bptr, buckets2, gone, listHead, walk>>

\* the state of the movable and of the single-list variant
tlsMore == <<buckets, arrMem, arrHead, bptr, buckets2, gone, listHead, walk>>

vars == <<top, next, value, blocks, blockNext, lock, allocd, freed, life, dptr,
          pc, old, nxt, blk, held, rel, snap, tail, acc, total, solo, drained, hnd,
          bucketHead, root, nodeValue, owner, bucketNext, listNext, nodeMem,
          ctorMem, allocations, built, tpc, tnode, calls, results, clears,
          cleared, initCalls, tlsTotal, copyHead, copies, buckets, arrMem,
          arrHead, bptr, buckets2, gone, listHead, walk>>

ZeroTP == [head |-> Null, tag |-> 0]
NoAcc == [node |-> Null, val |-> 0, inp |-> 0]
NoSolo == [thr |-> 0, kind |-> "none", data |-> <<>>]

\* ------------------------------------------------------------ pure helpers

\* lockfree_stack::load : the value of top_ (a CAS of 0 with 0 never changes it)
Load(cell) == cell

\* compare on the head alone, as a single-width CAS would
CompareExchangeHeadOnly(cell, expected, desired) ==
  IF cell.head = expected.head
    THEN [ok |-> TRUE, cell |-> desired, expected |-> expected]
    ELSE [ok |-> FALSE, cell |-> cell, expected |-> cell]

\* a compare-exchange that reports a failure without storing what it saw
CompareExchangeKeepExpected(cell, expected, desired) ==
  IF cell = expected
    THEN [ok |-> TRUE, cell |-> desired, expected |-> expected]
    ELSE [ok |-> FALSE, cell |-> cell, expected |-> expected]

\* lockfree_stack::compare_exchange
CompareExchange(cell, expected, desired) ==
  IF cell = expected
    THEN [ok |-> TRUE, cell |-> desired, expected |-> expected]
    ELSE [ok |-> FALSE, cell |-> cell, expected |-> cell]

\* a pop that installs the successor under the tag it read
PopDesiredSameTag(o, nx) == [head |-> nx, tag |-> o.tag]

\* line 239: {old.head->next, old.tag + 1}
PopDesired(o, nx) == [head |-> nx, tag |-> o.tag + 1]

\* a release that installs the old head again and so drops the node
PushDesiredDrop(o, n) == [head |-> o.head, tag |-> o.tag + 1]

\* line 129, 163: {ptr, old.tag + 1}
PushDesired(o, n) == [head |-> n, tag |-> o.tag + 1]

\* a drain that takes the chain but leaves the second node as the top
DrainDesiredKeepRest(o, nx) ==
  [head |-> IF o.head \in DOMAIN nx THEN nx[o.head] ELSE Null, tag |-> o.tag + 1]

\* line 264: {nullptr, old.tag + 1}
DrainDesired(o, nx) == [head |-> Null, tag |-> o.tag + 1]

\* a push that forgets to link the rest of the stack behind the node
LinkTargetNone(o) == Null

\* line 128, 162, 208: the value stored into the last node's next
LinkTarget(o) == o.head

\* a node whose value is left uninitialised
ValueUninit(n) == 1

\* line 53: T value{} : value-initialised
ValueInit(n) == 0

\* the nodes reached from h over the links nx, at most fuel of them
RECURSIVE ChainFrom(_, _, _)
ChainFrom(nx, h, fuel) ==
  IF h \notin Nodes \/ fuel = 0 THEN <<>>
  ELSE <<h>> \o ChainFrom(nx, nx[h], fuel - 1)

Chain(h) == ChainFrom(next, h, Cardinality(Nodes) + 1)

Range(s) == {s[i] : i \in 1..Len(s)}

\* the link that ends the chain from h: Null for a well-formed chain
RECURSIVE EndOf(_, _, _)
EndOf(nx, h, fuel) ==
  IF h \notin Nodes \/ fuel = 0 THEN h ELSE EndOf(nx, nx[h], fuel - 1)

\* object_pool::size
size == Len(Chain(Load(top).head))

\* the block list from the head b
RECURSIVE BlockChain(_, _, _)
BlockChain(bn, b, fuel) ==
  IF b \notin BlockIds \/ fuel = 0 THEN <<>>
  ELSE <<b>> \o BlockChain(bn, bn[b], fuel - 1)

BlockList == BlockChain(blockNext, blocks, MaxBlocks + 1)

Idle(t) == pc[t] \in {"idle", "threw"}

\* a destructor that does not walk to the tail
SnapTailNoWalk(h) == h

\* ~snapshot line 157-158: the last node of the private chain
SnapTail(h) == LET c == Chain(h) IN c[Len(c)]

RECURSIVE SumSeq(_)
SumSeq(s) == IF s = <<>> THEN 0 ELSE value[Head(s)] + SumSeq(Tail(s))

\* std::accumulate(snapshot.begin(), snapshot.end(), 0)
Accumulate(h) == SumSeq(Chain(h))

\* the <<node, value>> pairs of the chain from h
ValuedFrom(nx, val, h) ==
  LET c == ChainFrom(nx, h, Cardinality(Nodes) + 1)
  IN [i \in 1..Len(c) |-> <<c[i], val[c[i]]>>]

Valued(h) == ValuedFrom(next, value, h)

\* -------------------------------------------------------------- tls data
TlsThreads == 1..NumTlsThreads
TlsNodes == 1..MaxTlsNodes

BucketCount == 2     \* bucket_count, on a machine of two hardware threads
Buckets == 0..(BucketCount - 1)

Seed == 0            \* the value the initializer returns
NotRigged == -1      \* the allocator fails only when memory runs out

\* std::hash<std::thread::id>{}(tid)
Hash(t) == t

\* an index that ignores the hash
BucketOfFirst(t) == 0

\* line 130: hash % bucket_count
BucketOf(t) == Hash(t) % BucketCount

\* the nodes reached from h over the links nx, at most fuel of them
RECURSIVE WalkFrom(_, _, _)
WalkFrom(nx, h, fuel) ==
  IF h \notin TlsNodes \/ fuel = 0 THEN <<>>
  ELSE <<h>> \o WalkFrom(nx, nx[h], fuel - 1)

Walk(nx, h) == WalkFrom(nx, h, MaxTlsNodes + 1)

\* begin()..end() : the nodes from root over list_next
Entries == Walk(listNext, root)

\* a bucket's list: the nodes from its head over bucket_next
BucketList(i) == Walk(bucketNext, bucketHead[i])

\* a lookup that takes whatever node heads the bucket
OwnerMatchesAny(n, t) == TRUE

\* line 45: ptr->owner == std::this_thread::get_id()
OwnerMatches(n, t) == owner[n] = t

\* line 44-46: the first node of the list from h that belongs to thread t
Find(h, t) ==
  LET l == Walk(bucketNext, h)
      hits == {i \in 1..Len(l) : OwnerMatches(l[i], t)}
  IN IF hits = {} THEN Null
     ELSE l[CHOOSE i \in hits : \A j \in hits : i <= j]

\* an initializer that hands out the value of the newest entry
InitFromRoot == IF root \in TlsNodes THEN nodeValue[root] ELSE Seed

\* line 26, 216: value{init()}, the initializer returns a copy of the seed
InitCall == Seed

\* std::atomic<node *>::compare_exchange_weak that stores without comparing
CompareExchangeBlind(cell, expected, desired) ==
  [ok |-> TRUE, cell |-> desired, expected |-> expected]

\* line 56, 134: std::atomic<node *>::compare_exchange_weak; a spurious
\* failure reloads the same expected value and changes nothing
CompareExchangeWeak(cell, expected, desired) ==
  IF cell = expected
    THEN [ok |-> TRUE, cell |-> desired, expected |-> expected]
    ELSE [ok |-> FALSE, cell |-> cell, expected |-> cell]

\* the allocator's lowest free node
FreeNode == CHOOSE n \in TlsNodes :
              nodeMem[n] = "free" /\ \A m \in TlsNodes : nodeMem[m] = "free" => n <= m

TlsIdle(t) == tpc[t] \in {"idle", "threw"}
TlsQuiescent == \A t \in DOMAIN tpc : TlsIdle(t)

\* no traversal of the single list has begun
NoWalk == [ptr |-> Null, seen |-> <<>>, state |-> "none"]

\* the bucket array that the constructor of the movable variant allocates;
\* the array a thread allocates in local() is named by the thread
CtorArray == NumTlsThreads + 1

\* the bucket array that the constructor of a second container allocates
OtherArray == NumTlsThreads + 2

\* the movable and the single-list variant for threads T: the buckets of
\* the first container are the array arr and those of the second one the
\* array arr2, or the container is not there (Null)
MoreFresh(T, arr, arr2) ==
  /\ buckets = arr
  /\ buckets2 = arr2
  /\ arrMem = [a \in T \cup {CtorArray, OtherArray} |->
                 IF a \in {arr, arr2} THEN "live" ELSE "free"]
  /\ arrHead = [a \in T \cup {CtorArray, OtherArray} |-> [i \in Buckets |-> Null]]
  /\ bptr = [t \in T |-> Null]
  /\ gone = {}
  /\ listHead = Null
  /\ walk = NoWalk

\* the variables of the first variants for threads T and an allocator that
\* counts from count, or that does not count
TlsBase(T, count, isBuilt) ==
  /\ bucketHead = [i \in Buckets |-> Null]
  /\ root = Null
  /\ nodeValue = [n \in TlsNodes |-> 0]
  /\ owner = [n \in TlsNodes |-> 0]
  /\ bucketNext = [n \in TlsNodes |-> Null]
  /\ listNext = [n \in TlsNodes |-> Null]
  /\ nodeMem = [n \in TlsNodes |-> "free"]
  /\ ctorMem = IF isBuilt THEN {"buckets", "functor"} ELSE {}
  /\ allocations = count
  /\ built = IF isBuilt THEN "yes" ELSE "no"
  /\ tpc = [t \in T |-> "idle"]
  /\ tnode = [t \in T |-> Null]
  /\ calls = [t \in T |-> 0]
  /\ results = [t \in T |-> <<>>]
  /\ clears = 0
  /\ cleared = {}
  /\ initCalls = 0
  /\ tlsTotal = 0
  /\ copyHead = [i \in Buckets |-> Null]
  /\ copies = 0

\* the tls state before tls::tls (isBuilt = FALSE) or right after it, with no
\* container of the movable or of the single-list variant in use
TlsFresh(T, count, isBuilt) == TlsBase(T, count, isBuilt) /\ MoreFresh(T, Null, Null)

\* ------------------------------------------------------------------- Init
PoolInit(T) ==
  /\ top = ZeroTP
  /\ next = [n \in Nodes |-> Null]
  /\ value = [n \in Nodes |-> 0]
  /\ blocks = Null
  /\ blockNext = [b \in BlockIds |-> Null]
  /\ lock = 1
  /\ allocd = {}
  /\ freed = <<>>
  /\ life = "alive"
  /\ dptr = Null
  /\ pc = [t \in T |-> "idle"]
  /\ old = [t \in T |-> ZeroTP]
  /\ nxt = [t \in T |-> Null]
  /\ blk = [t \in T |-> Null]
  /\ held = [t \in T |-> {}]
  /\ rel = [t \in T |-> Null]
  /\ snap = [t \in T |-> NoSnap]
  /\ tail = [t \in T |-> Null]
  /\ acc = [t \in T |-> NoAcc]
  /\ total = 0
  /\ solo = NoSolo
  /\ drained = FALSE
  /\ hnd = [t \in T |-> <<>>]

\* a pool used by the threads T; no tls container is in use
InitFor(T) == PoolInit(T) /\ TlsFresh({}, NotRigged, FALSE)

\* a freshly constructed pool (line 221) and NumThreads threads
Init == InitFor(Threads)

\* solo survives a step of thread t only if t set it and continues with kind k
KeepSolo(t, k) ==
  solo' = IF solo.thr = t /\ solo.kind = k THEN solo ELSE NoSolo

CanStart(t) == life = "alive" /\ Idle(t) /\ top.tag < MaxTag

\* ---------------------------------------------------------------- lease()

\* a lease() that goes for the gate whatever top it read
LeaseLoadToGate(t) ==
  /\ CanStart(t)
  /\ old' = [old EXCEPT ![t] = Load(top)]
  /\ pc' = [pc EXCEPT ![t] = "gate"]
  /\ KeepSolo(t, "rel")
  /\ UNCHANGED <<top, next, value, blocks, blockNext, lock, allocd, freed, life,
                 dptr, nxt, blk, held, rel, snap, tail, acc, total>>
  /\ drained' = drained
  /\ UNCHANGED hnd /\ UNCHANGED tlsVars

\* line 236: auto old{stack.load()}; while(old.head)
LeaseLoad(t) ==
  /\ CanStart(t)
  /\ old' = [old EXCEPT ![t] = Load(top)]
  /\ pc' = [pc EXCEPT ![t] = IF top.head # Null THEN "pop_read" ELSE "gate"]
  /\ KeepSolo(t, "rel")
  /\ UNCHANGED <<top, next, value, blocks, blockNext, lock, allocd, freed, life,
                 dptr, nxt, blk, held, rel, snap, tail, acc, total>>
  /\ drained' = drained
  /\ UNCHANGED hnd /\ UNCHANGED tlsVars

\* another thread is about to store into the next link of node n: the plain
\* read of line 239 races with that store
ReadRaces(t, n) ==
  \E u \in DOMAIN pc \ {t} :
    \/ pc[u] = "rel_link" /\ rel[u] = n
    \/ pc[u] = "snap_link" /\ tail[u] = n

\* line 239: the argument static_cast<node *>(old.head)->next is read; the
\* node may have been popped since the load, and a read that races with its
\* holder's store yields any pointer value
LeaseReadNext(t) ==
  /\ life = "alive" /\ pc[t] = "pop_read"
  /\ \E v \in (IF ReadRaces(t, old[t].head) THEN Nodes \cup {Null} ELSE {})
                \cup {next[old[t].head]} :
       nxt' = [nxt EXCEPT ![t] = v]
  /\ pc' = [pc EXCEPT ![t] = "pop_cas"]
  /\ KeepSolo(t, "rel")
  /\ UNCHANGED <<top, next, value, blocks, blockNext, lock, allocd, freed, life,
                 dptr, old, blk, held, rel, snap, tail, acc, total>>
  /\ drained' = drained
  /\ UNCHANGED hnd /\ UNCHANGED tlsVars

\* line 239-240: the CAS; on success the node goes to the handle
LeaseCAS(t) ==
  /\ life = "alive" /\ pc[t] = "pop_cas"
  /\ LET r == CompareExchange(top, old[t], PopDesired(old[t], nxt[t]))
     IN /\ top' = r.cell
        /\ IF r.ok
             THEN /\ held' = [held EXCEPT ![t] = @ \cup {old[t].head}]
                  /\ old' = [old EXCEPT ![t] = ZeroTP]
                  /\ pc' = [pc EXCEPT ![t] = "idle"]
                  /\ solo' = IF solo.thr = t /\ solo.kind = "rel"
                               THEN [thr |-> t, kind |-> "reused",
                                     data |-> <<old[t].head>>]
                               ELSE NoSolo
             ELSE /\ held' = held
                  /\ old' = [old EXCEPT ![t] = r.expected]
                  /\ pc' = [pc EXCEPT ![t] =
                              IF r.expected.head # Null THEN "pop_read" ELSE "gate"]
                  /\ solo' = NoSolo
  /\ nxt' = [nxt EXCEPT ![t] = Null]
  /\ UNCHANGED <<next, value, blocks, blockNext, lock, allocd, freed, life,
                 dptr, blk, rel, snap, tail, acc, total>>
  /\ drained' = (drained /\ top'.head = Null)
  /\ UNCHANGED hnd /\ UNCHANGED tlsVars

\* a guard that takes the permit without waiting for it
LeaseAcquireNoWait(t) ==
  /\ life = "alive" /\ pc[t] = "gate"
  /\ lock' = 0
  /\ pc' = [pc EXCEPT ![t] = "recheck"]
  /\ solo' = NoSolo
  /\ UNCHANGED <<top, next, value, blocks, blockNext, allocd, freed, life,
                 dptr, old, nxt, blk, held, rel, snap, tail, acc, total>>
  /\ drained' = drained
  /\ UNCHANGED hnd /\ UNCHANGED tlsVars

\* line 247: guard{lock} : lock.acquire()
LeaseAcquire(t) ==
  /\ life = "alive" /\ pc[t] = "gate"
  /\ lock = 1
  /\ lock' = 0
  /\ pc' = [pc EXCEPT ![t] = "recheck"]
  /\ solo' = NoSolo
  /\ UNCHANGED <<top, next, value, blocks, blockNext, allocd, freed, life,
                 dptr, old, nxt, blk, held, rel, snap, tail, acc, total>>
  /\ drained' = drained
  /\ UNCHANGED hnd /\ UNCHANGED tlsVars

\* a slow path that allocates without looking at the stack again
RecheckTargetBlind(o) == "alloc"

\* line 253-256: if(old.head) goto retry; return allocate_new_block(old)
RecheckTarget(o) == IF o.head # Null THEN "unlock_retry" ELSE "alloc"

\* line 252-254: old = stack.load(); if(old.head) goto retry
LeaseRecheck(t) ==
  /\ life = "alive" /\ pc[t] = "recheck"
  /\ old' = [old EXCEPT ![t] = Load(top)]
  /\ pc' = [pc EXCEPT ![t] = RecheckTarget(Load(top))]
  /\ solo' = NoSolo
  /\ UNCHANGED <<top, next, value, blocks, blockNext, lock, allocd, freed, life,
                 dptr, nxt, blk, held, rel, snap, tail, acc, total>>
  /\ drained' = drained
  /\ UNCHANGED hnd /\ UNCHANGED tlsVars

\* a guard that is not destroyed when goto retry leaves its scope
LeaseUnlockNotOnRetry(t) ==
  /\ life = "alive" /\ pc[t] \in {"unlock_retry", "unlock_throw", "unlock_ret"}
  /\ lock' = IF pc[t] = "unlock_retry" THEN lock ELSE 1
  /\ pc' = [pc EXCEPT ![t] = CASE pc[t] = "unlock_retry" -> "pop_read"
                               [] pc[t] = "unlock_throw" -> "threw"
                               [] OTHER -> "idle"]
  /\ old' = [old EXCEPT ![t] = IF pc[t] = "unlock_retry" THEN @ ELSE ZeroTP]
  /\ solo' = NoSolo
  /\ UNCHANGED <<top, next, value, blocks, blockNext, allocd, freed, life,
                 dptr, nxt, blk, held, rel, snap, tail, acc, total>>
  /\ drained' = drained
  /\ UNCHANGED hnd /\ UNCHANGED tlsVars

\* line 248: ~guard : lock.release(), run when the goto leaves guard's scope,
\* when an exception unwinds through it, and at the return
LeaseUnlock(t) ==
  /\ life = "alive" /\ pc[t] \in {"unlock_retry", "unlock_throw", "unlock_ret"}
  /\ lock' = 1
  /\ pc' = [pc EXCEPT ![t] = CASE pc[t] = "unlock_retry" -> "pop_read"
                               [] pc[t] = "unlock_throw" -> "threw"
                               [] OTHER -> "idle"]
  /\ old' = [old EXCEPT ![t] = IF pc[t] = "unlock_retry" THEN @ ELSE ZeroTP]
  /\ solo' = NoSolo
  /\ UNCHANGED <<top, next, value, blocks, blockNext, allocd, freed, life,
                 dptr, nxt, blk, held, rel, snap, tail, acc, total>>
  /\ drained' = drained
  /\ UNCHANGED hnd /\ UNCHANGED tlsVars

\* -------------------------------------------------- allocate_new_block()

\* line 198: allocator_traits::allocate; it throws when memory is exhausted,
\* and may throw at any other time
Allocate(t) ==
  /\ life = "alive" /\ pc[t] = "alloc"
  /\ \/ /\ Cardinality(allocd) < MaxBlocks
        /\ LET b == CHOOSE x \in BlockIds : x \notin allocd /\
                      \A y \in BlockIds : y \notin allocd => x <= y
           IN /\ allocd' = allocd \cup {b}
              /\ blk' = [blk EXCEPT ![t] = b]
        /\ pc' = [pc EXCEPT ![t] = "construct"]
     \/ /\ pc' = [pc EXCEPT ![t] = "unlock_throw"]
        /\ UNCHANGED <<allocd, blk>>
  /\ solo' = NoSolo
  /\ UNCHANGED <<top, next, value, blocks, blockNext, lock, freed, life,
                 dptr, old, nxt, held, rel, snap, tail, acc, total>>
  /\ drained' = drained
  /\ UNCHANGED hnd /\ UNCHANGED tlsVars

\* the links of block b after line 205, other nodes as they are
LinkedNodes(b) ==
  [n \in Nodes |->
     IF BlockOf(n) = b
       THEN IF n = NodeAt(b, 0) THEN Null
            ELSE IF n = NodeAt(b, NodesPerBlock - 1) THEN PastEnd
            ELSE n + 1
       ELSE next[n]]

\* a registration that forgets  block->next = blocks
RegisterAndLinkLoseList(b) ==
  /\ blockNext' = [blockNext EXCEPT ![b] = Null]
  /\ blocks' = b
  /\ next' = LinkedNodes(b)
  /\ value' = [n \in Nodes |-> IF BlockOf(n) = b THEN ValueInit(n) ELSE value[n]]

\* line 203-205 on the block b: register it and link nodes 1..N-1
RegisterAndLink(b) ==
  /\ blockNext' = [blockNext EXCEPT ![b] = blocks]
  /\ blocks' = b
  /\ next' = LinkedNodes(b)
  /\ value' = [n \in Nodes |-> IF BlockOf(n) = b THEN ValueInit(n) ELSE value[n]]

\* a catch block that runs after the block was registered
ConstructThrowRegistered(t) ==
  /\ RegisterAndLink(blk[t])
  /\ allocd' = allocd \ {blk[t]}
  /\ blk' = [blk EXCEPT ![t] = Null]
  /\ pc' = [pc EXCEPT ![t] = "unlock_throw"]

\* line 200, 212-214: construct throws: deallocate the block and rethrow
ConstructThrow(t) ==
  /\ allocd' = allocd \ {blk[t]}
  /\ blk' = [blk EXCEPT ![t] = Null]
  /\ pc' = [pc EXCEPT ![t] = "unlock_throw"]
  /\ UNCHANGED <<next, value, blocks, blockNext>>

\* line 200-205: construct (value-initialises every node), register, link;
\* line 212-214 when the construction throws: deallocate and rethrow
Construct(t) ==
  /\ life = "alive" /\ pc[t] = "construct"
  /\ \/ /\ RegisterAndLink(blk[t])
        /\ pc' = [pc EXCEPT ![t] = "publish_link"]
        /\ UNCHANGED <<allocd, blk>>
     \/ ConstructThrow(t)
  /\ solo' = NoSolo
  /\ UNCHANGED <<top, lock, freed, life, dptr, old, nxt, held, rel, snap, tail,
                 acc, total>>
  /\ drained' = drained
  /\ UNCHANGED hnd /\ UNCHANGED tlsVars

\* line 208: block->nodes[N-1].next = old.head
PublishLink(t) ==
  /\ life = "alive" /\ pc[t] = "publish_link"
  /\ next' = [next EXCEPT ![NodeAt(blk[t], NodesPerBlock - 1)] = LinkTarget(old[t])]
  /\ pc' = [pc EXCEPT ![t] = "publish_cas"]
  /\ solo' = NoSolo
  /\ UNCHANGED <<top, value, blocks, blockNext, lock, allocd, freed, life,
                 dptr, old, nxt, blk, held, rel, snap, tail, acc, total>>
  /\ drained' = drained
  /\ UNCHANGED hnd /\ UNCHANGED tlsVars

\* line 209-211: the CAS; on success return {stack, block->nodes}
PublishCAS(t) ==
  /\ life = "alive" /\ pc[t] = "publish_cas"
  /\ LET r == CompareExchange(top, old[t], PushDesired(old[t], PublishHead(blk[t])))
     IN /\ top' = r.cell
        /\ old' = [old EXCEPT ![t] = r.expected]
        /\ IF r.ok
             THEN /\ held' = [held EXCEPT ![t] = @ \cup {KeptNode(blk[t])}]
                  /\ blk' = [blk EXCEPT ![t] = Null]
                  /\ pc' = [pc EXCEPT ![t] = "unlock_ret"]
             ELSE /\ pc' = [pc EXCEPT ![t] = "publish_link"]
                  /\ UNCHANGED <<held, blk>>
  /\ solo' = NoSolo
  /\ UNCHANGED <<next, value, blocks, blockNext, lock, allocd, freed, life,
                 dptr, nxt, rel, snap, tail, acc, total>>
  /\ drained' = (drained /\ top'.head = Null)
  /\ UNCHANGED hnd /\ UNCHANGED tlsVars

\* ------------------------------------------------------------- ~handle()

\* line 127: the handle on node n is destroyed: auto old{owner.load()}
ReleaseLoad(t, n) ==
  /\ CanStart(t)
  /\ n \in held[t]
  /\ rel' = [rel EXCEPT ![t] = n]
  /\ old' = [old EXCEPT ![t] = Load(top)]
  /\ pc' = [pc EXCEPT ![t] = "rel_link"]
  /\ solo' = NoSolo
  /\ UNCHANGED <<top, next, value, blocks, blockNext, lock, allocd, freed, life,
                 dptr, nxt, blk, held, snap, tail, acc, total>>
  /\ drained' = drained
  /\ UNCHANGED hnd /\ UNCHANGED tlsVars

\* line 128: ptr->next = old.head
ReleaseLink(t) ==
  /\ life = "alive" /\ pc[t] = "rel_link"
  /\ next' = [next EXCEPT ![rel[t]] = LinkTarget(old[t])]
  /\ pc' = [pc EXCEPT ![t] = "rel_cas"]
  /\ solo' = NoSolo
  /\ UNCHANGED <<top, value, blocks, blockNext, lock, allocd, freed, life,
                 dptr, old, nxt, blk, held, rel, snap, tail, acc, total>>
  /\ drained' = drained
  /\ UNCHANGED hnd /\ UNCHANGED tlsVars

\* line 129-130: the CAS; the handle is gone once it succeeded
ReleaseCAS(t) ==
  /\ life = "alive" /\ pc[t] = "rel_cas"
  /\ LET r == CompareExchange(top, old[t], PushDesired(old[t], rel[t]))
     IN /\ top' = r.cell
        /\ IF r.ok
             THEN /\ held' = [held EXCEPT ![t] = @ \ {rel[t]}]
                  /\ rel' = [rel EXCEPT ![t] = Null]
                  /\ old' = [old EXCEPT ![t] = ZeroTP]
                  /\ pc' = [pc EXCEPT ![t] = "idle"]
                  /\ solo' = [thr |-> t, kind |-> "rel", data |-> <<rel[t]>>]
             ELSE /\ old' = [old EXCEPT ![t] = r.expected]
                  /\ pc' = [pc EXCEPT ![t] = "rel_link"]
                  /\ solo' = NoSolo
                  /\ UNCHANGED <<held, rel>>
  /\ UNCHANGED <<next, value, blocks, blockNext, lock, allocd, freed, life,
                 dptr, nxt, blk, snap, tail, acc, total>>
  /\ drained' = (drained /\ top'.head = Null)
  /\ UNCHANGED hnd /\ UNCHANGED tlsVars

\* ------------------------------------------------------  *handle += v

\* the read of *handle for the input v
AddRead(t, n, v) ==
  /\ life = "alive" /\ Idle(t)
  /\ n \in held[t]
  /\ total + v <= MaxSum
  /\ acc' = [acc EXCEPT ![t] = [node |-> n, val |-> value[n] + v, inp |-> v]]
  /\ pc' = [pc EXCEPT ![t] = "add_write"]
  /\ solo' = NoSolo
  /\ UNCHANGED <<top, next, value, blocks, blockNext, lock, allocd, freed, life,
                 dptr, old, nxt, blk, held, rel, snap, tail, total>>
  /\ drained' = drained
  /\ UNCHANGED hnd /\ UNCHANGED tlsVars

\* the write of the sum to *handle
AddWrite(t) ==
  /\ life = "alive" /\ pc[t] = "add_write"
  /\ value' = [value EXCEPT ![acc[t].node] = acc[t].val]
  /\ total' = total + acc[t].inp
  /\ acc' = [acc EXCEPT ![t] = NoAcc]
  /\ pc' = [pc EXCEPT ![t] = "idle"]
  /\ solo' = NoSolo
  /\ UNCHANGED <<top, next, blocks, blockNext, lock, allocd, freed, life,
                 dptr, old, nxt, blk, held, rel, snap, tail>>
  /\ drained' = drained
  /\ UNCHANGED hnd /\ UNCHANGED tlsVars

\* ------------------------------------------------------------ lease_all()

\* line 262-263, 268: load; an empty stack returns snapshot{nullptr} at once
LeaseAllLoad(t) ==
  /\ CanStart(t)
  /\ snap[t] = NoSnap
  /\ IF top.head # Null
       THEN /\ old' = [old EXCEPT ![t] = Load(top)]
            /\ pc' = [pc EXCEPT ![t] = "all_cas"]
            /\ snap' = snap
            /\ KeepSolo(t, "restored")
       ELSE /\ snap' = [snap EXCEPT ![t] = Null]
            /\ pc' = [pc EXCEPT ![t] = "idle"]
            /\ old' = old
            /\ solo' = [thr |-> t, kind |-> "drain", data |-> <<>>]
  /\ UNCHANGED <<top, next, value, blocks, blockNext, lock, allocd, freed, life,
                 dptr, nxt, blk, held, rel, tail, acc, total>>
  /\ drained' = drained
  /\ UNCHANGED hnd /\ UNCHANGED tlsVars

\* a lease_all() that tries its CAS once and returns the head it saw last
LeaseAllCASOnce(t) ==
  /\ life = "alive" /\ pc[t] = "all_cas"
  /\ LET r == CompareExchange(top, old[t], DrainDesired(old[t], next))
     IN /\ top' = r.cell
        /\ snap' = [snap EXCEPT ![t] = r.expected.head]
        /\ old' = [old EXCEPT ![t] = ZeroTP]
        /\ pc' = [pc EXCEPT ![t] = "idle"]
        /\ solo' = NoSolo
  /\ UNCHANGED <<next, value, blocks, blockNext, lock, allocd, freed, life,
                 dptr, nxt, blk, held, rel, tail, acc, total>>
  /\ drained' = IF top' # top THEN TRUE ELSE (drained /\ top'.head = Null)
  /\ UNCHANGED hnd /\ UNCHANGED tlsVars

\* line 264-268: the CAS to {nullptr, tag + 1}
LeaseAllCAS(t) ==
  /\ life = "alive" /\ pc[t] = "all_cas"
  /\ LET r == CompareExchange(top, old[t], DrainDesired(old[t], next))
     IN /\ top' = r.cell
        /\ IF r.ok \/ r.expected.head = Null
             THEN /\ snap' = [snap EXCEPT ![t] = r.expected.head]
                  /\ old' = [old EXCEPT ![t] = ZeroTP]
                  /\ pc' = [pc EXCEPT ![t] = "idle"]
                  /\ solo' = [thr |-> t,
                              kind |-> IF solo.thr = t /\ solo.kind = "restored"
                                         THEN "again" ELSE "drain",
                              data |-> Valued(r.expected.head)]
             ELSE /\ old' = [old EXCEPT ![t] = r.expected]
                  /\ solo' = NoSolo
                  /\ UNCHANGED <<snap, pc>>
  /\ UNCHANGED <<next, value, blocks, blockNext, lock, allocd, freed, life,
                 dptr, nxt, blk, held, rel, tail, acc, total>>
  /\ drained' = IF top' # top THEN TRUE ELSE (drained /\ top'.head = Null)
  /\ UNCHANGED hnd /\ UNCHANGED tlsVars

\* ----------------------------------------------------------- ~snapshot()

\* line 157-158: walk to the tail; with head == nullptr the loop condition
\* tail->next dereferences a null pointer and the process dies
SnapshotWalk(t) ==
  /\ life = "alive" /\ Idle(t) /\ snap[t] # NoSnap
  /\ top.tag < MaxTag
  /\ IF snap[t] = Null
       THEN /\ life' = "crashed"
            /\ UNCHANGED <<tail, pc>>
       ELSE /\ tail' = [tail EXCEPT ![t] = SnapTail(snap[t])]
            /\ pc' = [pc EXCEPT ![t] = "snap_load"]
            /\ life' = life
  /\ KeepSolo(t, "drain")
  /\ UNCHANGED <<top, next, value, blocks, blockNext, lock, allocd, freed,
                 dptr, old, nxt, blk, held, rel, snap, acc, total>>
  /\ drained' = drained
  /\ UNCHANGED hnd /\ UNCHANGED tlsVars

\* line 161: auto old{owner.load()}
SnapshotLoad(t) ==
  /\ life = "alive" /\ pc[t] = "snap_load"
  /\ old' = [old EXCEPT ![t] = Load(top)]
  /\ pc' = [pc EXCEPT ![t] = "snap_link"]
  /\ KeepSolo(t, "drain")
  /\ UNCHANGED <<top, next, value, blocks, blockNext, lock, allocd, freed, life,
                 dptr, nxt, blk, held, rel, snap, tail, acc, total>>
  /\ drained' = drained
  /\ UNCHANGED hnd /\ UNCHANGED tlsVars

\* a destructor that links the stack behind the head of its chain
SnapshotLinkHead(t) ==
  /\ life = "alive" /\ pc[t] = "snap_link"
  /\ next' = [next EXCEPT ![snap[t]] = LinkTarget(old[t])]
  /\ pc' = [pc EXCEPT ![t] = "snap_cas"]
  /\ KeepSolo(t, "drain")
  /\ UNCHANGED <<top, value, blocks, blockNext, lock, allocd, freed, life,
                 dptr, old, nxt, blk, held, rel, snap, tail, acc, total>>
  /\ drained' = drained
  /\ UNCHANGED hnd /\ UNCHANGED tlsVars

\* line 162: tail->next = old.head
SnapshotLink(t) ==
  /\ life = "alive" /\ pc[t] = "snap_link"
  /\ next' = [next EXCEPT ![tail[t]] = LinkTarget(old[t])]
  /\ pc' = [pc EXCEPT ![t] = "snap_cas"]
  /\ KeepSolo(t, "drain")
  /\ UNCHANGED <<top, value, blocks, blockNext, lock, allocd, freed, life,
                 dptr, old, nxt, blk, held, rel, snap, tail, acc, total>>
  /\ drained' = drained
  /\ UNCHANGED hnd /\ UNCHANGED tlsVars

\* line 163-164: the CAS that splices the chain back
SnapshotCAS(t) ==
  /\ life = "alive" /\ pc[t] = "snap_cas"
  /\ LET r == CompareExchange(top, old[t], PushDesired(old[t], snap[t]))
     IN /\ top' = r.cell
        /\ IF r.ok
             THEN /\ snap' = [snap EXCEPT ![t] = NoSnap]
                  /\ tail' = [tail EXCEPT ![t] = Null]
                  /\ old' = [old EXCEPT ![t] = ZeroTP]
                  /\ pc' = [pc EXCEPT ![t] = "idle"]
                  /\ solo' = IF solo.thr = t /\ solo.kind = "drain"
                               THEN [solo EXCEPT !.kind = "restored"] ELSE NoSolo
             ELSE /\ old' = [old EXCEPT ![t] = r.expected]
                  /\ pc' = [pc EXCEPT ![t] = "snap_link"]
                  /\ solo' = NoSolo
                  /\ UNCHANGED <<snap, tail>>
  /\ UNCHANGED <<next, value, blocks, blockNext, lock, allocd, freed, life,
                 dptr, nxt, blk, held, rel, acc, total>>
  /\ drained' = (drained /\ top'.head = Null)
  /\ UNCHANGED hnd /\ UNCHANGED tlsVars

\* --------------------------------------------------------- ~object_pool()

Quiescent ==
  \A t \in DOMAIN pc : Idle(t) /\ held[t] = {} /\ snap[t] = NoSnap

\* line 225: auto ptr{blocks}; the precondition is that nothing is leased
DestroyBegin ==
  /\ life = "alive" /\ Quiescent
  /\ life' = "destroying"
  /\ dptr' = blocks
  /\ solo' = NoSolo
  /\ UNCHANGED <<top, next, value, blocks, blockNext, lock, allocd, freed,
                 pc, old, nxt, blk, held, rel, snap, tail, acc, total>>
  /\ drained' = drained
  /\ UNCHANGED hnd /\ UNCHANGED tlsVars

\* line 226-229: one iteration: destroy and deallocate ptr, go to next
DestroyStep ==
  /\ life = "destroying" /\ dptr # Null
  /\ freed' = Append(freed, dptr)
  /\ allocd' = allocd \ {dptr}
  /\ dptr' = blockNext[dptr]
  /\ UNCHANGED <<top, next, value, blocks, blockNext, lock, life,
                 pc, old, nxt, blk, held, rel, snap, tail, acc, total, solo>>
  /\ drained' = drained
  /\ UNCHANGED hnd /\ UNCHANGED tlsVars

\* line 225: the loop ends with ptr == nullptr
DestroyEnd ==
  /\ life = "destroying" /\ dptr = Null
  /\ life' = "destroyed"
  /\ UNCHANGED <<top, next, value, blocks, blockNext, lock, allocd, freed, dptr,
                 pc, old, nxt, blk, held, rel, snap, tail, acc, total, solo>>
  /\ drained' = drained
  /\ UNCHANGED hnd /\ UNCHANGED tlsVars

\* ------------------------------------------------------------------- Next

\* the steps inside lease(), ~handle(), lease_all() and ~snapshot()
LeaseStep(t) ==
  \/ LeaseReadNext(t) \/ LeaseCAS(t)
  \/ LeaseAcquire(t) \/ LeaseRecheck(t) \/ LeaseUnlock(t)
  \/ Allocate(t) \/ Construct(t) \/ PublishLink(t) \/ PublishCAS(t)

ReleaseStep(t) == ReleaseLink(t) \/ ReleaseCAS(t)

SnapshotStep(t) ==
  \/ LeaseAllCAS(t)
  \/ SnapshotWalk(t) \/ SnapshotLoad(t) \/ SnapshotLink(t) \/ SnapshotCAS(t)

\* any use of one pool by NumThreads threads, then its destruction
Next ==
  \/ \E t \in Threads :
       \/ LeaseLoad(t) \/ LeaseStep(t)
       \/ \E n \in Nodes : ReleaseLoad(t, n)
       \/ ReleaseStep(t)
       \/ LeaseAllLoad(t) \/ SnapshotStep(t)
  \/ DestroyBegin \/ DestroyStep \/ DestroyEnd

Spec == Init /\ [][Next]_vars

\* the reduction of test "object_pool": workers run  *tls.lease() += val  and
\* any thread may take and drop a snapshot
ReduceNext ==
  \E t \in Threads :
    \/ (held[t] = {} /\ LeaseLoad(t)) \/ LeaseStep(t)
    \/ \E n \in Nodes : \E v \in 1..MaxInput : AddRead(t, n, v)
    \/ AddWrite(t)
    \/ \E n \in Nodes : ReleaseLoad(t, n)
    \/ ReleaseStep(t)
    \/ (held[t] = {} /\ LeaseAllLoad(t)) \/ SnapshotStep(t)

SpecReduce == Init /\ [][ReduceNext]_vars

\* GateThreads threads each call lease() once on a fresh pool and keep the handle
GateInit == InitFor(1..GateThreads)

GateNext ==
  \E t \in 1..GateThreads :
    \/ (pc[t] = "idle" /\ held[t] = {} /\ LeaseLoad(t))
    \/ LeaseStep(t)

SpecGate == GateInit /\ [][GateNext]_vars

\* every thread leases while it holds no handle and releases the handle it
\* holds; lease_all() is not used
OneHandleNext ==
  \E t \in 1..GateThreads :
    \/ (held[t] = {} /\ LeaseLoad(t)) \/ LeaseStep(t)
    \/ \E n \in Nodes : ReleaseLoad(t, n)
    \/ ReleaseStep(t)

SpecOneHandle == GateInit /\ [][OneHandleNext]_vars

\* ------------------------------------------------------------ tls::local()

\* the third allocate() of the counting allocator throws
FailAt == 3

Rigged == allocations # NotRigged

\* the allocator's count after one more allocate()
Counted(count) == IF count = NotRigged THEN count ELSE count + 1

\* line 43-46 under line 127-131: the lookup in the caller's bucket. The list
\* behind a loaded head never changes, so the walk is one step with the load.
LocalFind(t) ==
  /\ built = "yes" /\ TlsIdle(t) /\ calls[t] < MaxCalls
  /\ calls' = [calls EXCEPT ![t] = @ + 1]
  /\ LET n == Find(bucketHead[BucketOf(t)], t)
     IN IF n # Null
          THEN /\ results' = [results EXCEPT ![t] = Append(@, <<n, FALSE>>)]
               /\ tpc' = [tpc EXCEPT ![t] = "idle"]
          ELSE /\ results' = results
               /\ tpc' = [tpc EXCEPT ![t] = "allocate"]
  /\ UNCHANGED <<bucketHead, root, nodeValue, owner, bucketNext, listNext,
                 nodeMem, ctorMem, allocations, built, tnode, clears,
                 initCalls, tlsTotal, copyHead, copies, cleared>>
  /\ UNCHANGED tlsMore /\ UNCHANGED poolVars

\* line 48: allocator_traits::allocate(allocator, 1). The counting allocator
\* throws on its third call; any other throws when it has no memory, and may
\* throw at any time
LocalAllocate(t) ==
  /\ built = "yes" /\ tpc[t] = "allocate"
  /\ allocations' = Counted(allocations)
  /\ IF Rigged
       THEN IF allocations + 1 = FailAt
              THEN /\ tpc' = [tpc EXCEPT ![t] = "threw"]
                   /\ UNCHANGED <<nodeMem, tnode>>
              ELSE /\ \E n \in TlsNodes : nodeMem[n] = "free"
                   /\ nodeMem' = [nodeMem EXCEPT ![FreeNode] = "raw"]
                   /\ tnode' = [tnode EXCEPT ![t] = FreeNode]
                   /\ tpc' = [tpc EXCEPT ![t] = "construct"]
       ELSE \/ /\ \E n \in TlsNodes : nodeMem[n] = "free"
               /\ nodeMem' = [nodeMem EXCEPT ![FreeNode] = "raw"]
               /\ tnode' = [tnode EXCEPT ![t] = FreeNode]
               /\ tpc' = [tpc EXCEPT ![t] = "construct"]
            \/ /\ tpc' = [tpc EXCEPT ![t] = "threw"]
               /\ UNCHANGED <<nodeMem, tnode>>
  /\ UNCHANGED <<bucketHead, root, nodeValue, owner, bucketNext, listNext,
                 ctorMem, built, calls, results, clears, initCalls, tlsTotal,
                 copyHead, copies, cleared>>
  /\ UNCHANGED tlsMore /\ UNCHANGED poolVars

\* an unwinding that forgets the node
UnwindLeak(mem, n) == mem

\* line 51-54: catch(...) { deallocate(allocator, ptr, 1); throw; }
Unwind(mem, n) == [mem EXCEPT ![n] = "free"]

\* line 50 with line 26-30: construct(allocator, ptr, init) runs
\* node(init) : value{init()}, owner{get_id()}, both links null. The
\* initializer may throw; the one of a value-seeded container under the
\* counting allocator copies an int and does not.
LocalConstruct(t) ==
  /\ built = "yes" /\ tpc[t] = "construct"
  /\ initCalls' = initCalls + 1
  /\ \/ /\ nodeValue' = [nodeValue EXCEPT ![tnode[t]] = InitCall]
        /\ owner' = [owner EXCEPT ![tnode[t]] = t]
        /\ bucketNext' = [bucketNext EXCEPT ![tnode[t]] = Null]
        /\ listNext' = [listNext EXCEPT ![tnode[t]] = Null]
        /\ nodeMem' = [nodeMem EXCEPT ![tnode[t]] = "live"]
        /\ tpc' = [tpc EXCEPT ![t] = "bucket_load"]
        /\ tnode' = tnode
     \/ /\ ~Rigged
        /\ nodeMem' = Unwind(nodeMem, tnode[t])
        /\ tnode' = [tnode EXCEPT ![t] = Null]
        /\ tpc' = [tpc EXCEPT ![t] = "threw"]
        /\ UNCHANGED <<nodeValue, owner, bucketNext, listNext>>
  /\ UNCHANGED <<bucketHead, root, ctorMem, allocations, built, calls, results,
                 clears, tlsTotal, copyHead, copies, cleared>>
  /\ UNCHANGED tlsMore /\ UNCHANGED poolVars

\* line 55: ptr->bucket_next = head.load()
LocalBucketLoad(t) ==
  /\ built = "yes" /\ tpc[t] = "bucket_load"
  /\ bucketNext' = [bucketNext EXCEPT ![tnode[t]] = bucketHead[BucketOf(t)]]
  /\ tpc' = [tpc EXCEPT ![t] = "bucket_cas"]
  /\ UNCHANGED <<bucketHead, root, nodeValue, owner, listNext, nodeMem, ctorMem,
                 allocations, built, tnode, calls, results, clears, initCalls,
                 tlsTotal, copyHead, copies, cleared>>
  /\ UNCHANGED tlsMore /\ UNCHANGED poolVars

\* a prepend to the bucket that goes on without storing the node in the head
LocalBucketCASNoStore(t) ==
  /\ built = "yes" /\ tpc[t] = "bucket_cas"
  /\ tpc' = [tpc EXCEPT ![t] = "root_load"]
  /\ UNCHANGED <<bucketHead, bucketNext, root, nodeValue, owner, listNext,
                 nodeMem, ctorMem, allocations, built, tnode, calls, results,
                 clears, initCalls, tlsTotal, copyHead, copies, cleared>>
  /\ UNCHANGED tlsMore /\ UNCHANGED poolVars

\* line 56: while(!head.compare_exchange_weak(ptr->bucket_next, ptr));
LocalBucketCAS(t) ==
  /\ built = "yes" /\ tpc[t] = "bucket_cas"
  /\ LET i == BucketOf(t)
         r == CompareExchangeWeak(bucketHead[i], bucketNext[tnode[t]], tnode[t])
     IN /\ bucketHead' = [bucketHead EXCEPT ![i] = r.cell]
        /\ bucketNext' = [bucketNext EXCEPT ![tnode[t]] = r.expected]
        /\ tpc' = [tpc EXCEPT ![t] = IF r.ok THEN "root_load" ELSE "bucket_cas"]
  /\ UNCHANGED <<root, nodeValue, owner, listNext, nodeMem, ctorMem,
                 allocations, built, tnode, calls, results, clears, initCalls,
                 tlsTotal, copyHead, copies, cleared>>
  /\ UNCHANGED tlsMore /\ UNCHANGED poolVars

\* line 133: node->list_next = root
LocalRootLoad(t) ==
  /\ built = "yes" /\ tpc[t] = "root_load"
  /\ listNext' = [listNext EXCEPT ![tnode[t]] = root]
  /\ tpc' = [tpc EXCEPT ![t] = "root_cas"]
  /\ UNCHANGED <<bucketHead, root, nodeValue, owner, bucketNext, nodeMem,
                 ctorMem, allocations, built, tnode, calls, results, clears,
                 initCalls, tlsTotal, copyHead, copies, cleared>>
  /\ UNCHANGED tlsMore /\ UNCHANGED poolVars

\* line 134-136: while(!root.compare_exchange_weak(node->list_next, node));
\* return {node->value, true}
LocalRootCAS(t) ==
  /\ built = "yes" /\ tpc[t] = "root_cas"
  /\ LET r == CompareExchangeWeak(root, listNext[tnode[t]], tnode[t])
     IN /\ root' = r.cell
        /\ listNext' = [listNext EXCEPT ![tnode[t]] = r.expected]
        /\ IF r.ok
             THEN /\ results' = [results EXCEPT ![t] = Append(@, <<tnode[t], TRUE>>)]
                  /\ tpc' = [tpc EXCEPT ![t] = "idle"]
                  /\ tnode' = [tnode EXCEPT ![t] = Null]
             ELSE UNCHANGED <<results, tpc, tnode>>
  /\ UNCHANGED <<bucketHead, nodeValue, owner, bucketNext, nodeMem, ctorMem,
                 allocations, built, calls, clears, initCalls, tlsTotal,
                 copyHead, copies, cleared>>
  /\ UNCHANGED tlsMore /\ UNCHANGED poolVars

\* the entry thread t got from its last local()
Mine(t) == results[t][Len(results[t])][1]

\* the worker of the reduction: std::get<0>(tls.local()) += v, on the
\* reference its last local() returned
TlsAdd(t, v) ==
  /\ built = "yes" /\ tpc[t] = "idle" /\ results[t] # <<>>
  /\ tlsTotal + v <= MaxSum
  /\ nodeValue' = [nodeValue EXCEPT ![Mine(t)] = @ + v]
  /\ tlsTotal' = tlsTotal + v
  /\ UNCHANGED <<bucketHead, root, owner, bucketNext, listNext, nodeMem, ctorMem,
                 allocations, built, tpc, tnode, calls, results, clears,
                 initCalls, copyHead, copies, cleared>>
  /\ UNCHANGED tlsMore /\ UNCHANGED poolVars

\* a clear() that frees the nodes and leaves the head pointing at them
ClearHeadKeep(h) == h

\* line 61: head.exchange(nullptr) leaves the head null
ClearHead(h) == Null

\* the nodes of all bucket lists
Listed == UNION {{BucketList(i)[k] : k \in 1..Len(BucketList(i))} : i \in Buckets}

\* line 139-143 with line 60-67: every bucket list is detached, its nodes are
\* destroyed and deallocated, then root = nullptr. Never called while a
\* local() is running.
TlsClear ==
  /\ built = "yes" /\ TlsQuiescent /\ clears < MaxClears
  /\ clears' = clears + 1
  /\ bucketHead' = [i \in Buckets |-> ClearHead(bucketHead[i])]
  /\ nodeMem' = [n \in TlsNodes |-> IF n \in Listed THEN "free" ELSE nodeMem[n]]
  /\ root' = Null
  /\ results' = [t \in DOMAIN results |-> <<>>]
  /\ calls' = [t \in DOMAIN calls |-> 0]
  /\ cleared' = {t \in DOMAIN results : results[t] # <<>>}
  /\ tlsTotal' = 0
  /\ UNCHANGED <<nodeValue, owner, bucketNext, listNext, ctorMem, allocations,
                 built, tpc, tnode, initCalls, copyHead, copies>>
  /\ UNCHANGED tlsMore /\ UNCHANGED poolVars

\* a thread is inside clear()
Clearing(t) == tpc[t] \in {"clear_heads", "clear_nodes", "clear0_nodes"}
ClearRunning == \E t \in DOMAIN tpc : Clearing(t)

\* the first bucket in index order whose list is not empty
FirstFull == CHOOSE i \in Buckets :
               bucketHead[i] # Null /\ \A j \in Buckets : bucketHead[j] # Null => i <= j

\* what clear() leaves behind for the callers, whose entries are gone
ClearBooks ==
  /\ clears' = clears + 1
  /\ results' = [t \in DOMAIN results |-> <<>>]
  /\ calls' = [t \in DOMAIN calls |-> 0]
  /\ cleared' = {t \in DOMAIN results : results[t] # <<>>}
  /\ tlsTotal' = 0

\* line 139-140: clear() is entered, by contract while no other call runs
ClearBegin(c) ==
  /\ built = "yes" /\ TlsQuiescent /\ tpc[c] = "idle" /\ clears < MaxClears
  /\ tpc' = [tpc EXCEPT ![c] = "clear_heads"]
  /\ UNCHANGED <<bucketHead, root, nodeValue, owner, bucketNext, listNext,
                 nodeMem, ctorMem, allocations, built, tnode, calls, results,
                 clears, cleared, initCalls, tlsTotal, copyHead, copies>>
  /\ UNCHANGED tlsMore /\ UNCHANGED poolVars

\* a clear that loads the head of the list it is about to free
ClearExchangeLoad(c) ==
  /\ tpc[c] = "clear_heads"
  /\ \E i \in Buckets : bucketHead[i] # Null
  /\ tnode' = [tnode EXCEPT ![c] = bucketHead[FirstFull]]
  /\ tpc' = [tpc EXCEPT ![c] = "clear_nodes"]
  /\ UNCHANGED <<bucketHead, root, nodeValue, owner, bucketNext, listNext,
                 nodeMem, ctorMem, allocations, built, calls, results, clears,
                 cleared, initCalls, tlsTotal, copyHead, copies>>
  /\ UNCHANGED tlsMore /\ UNCHANGED poolVars

\* line 141 with line 61: ptr[i].clear() : auto ptr{head.exchange(nullptr)};
\* the exchange of an empty bucket changes nothing
ClearExchange(c) ==
  /\ tpc[c] = "clear_heads"
  /\ \E i \in Buckets : bucketHead[i] # Null
  /\ tnode' = [tnode EXCEPT ![c] = bucketHead[FirstFull]]
  /\ bucketHead' = [bucketHead EXCEPT ![FirstFull] = ClearHead(@)]
  /\ tpc' = [tpc EXCEPT ![c] = "clear_nodes"]
  /\ UNCHANGED <<root, nodeValue, owner, bucketNext, listNext, nodeMem, ctorMem,
                 allocations, built, calls, results, clears, cleared, initCalls,
                 tlsTotal, copyHead, copies>>
  /\ UNCHANGED tlsMore /\ UNCHANGED poolVars

\* line 62-65: old = ptr; ptr = ptr->bucket_next; destroy and deallocate old
ClearFree(c) ==
  /\ tpc[c] = "clear_nodes"
  /\ nodeMem' = [nodeMem EXCEPT ![tnode[c]] = "free"]
  /\ tnode' = [tnode EXCEPT ![c] = bucketNext[tnode[c]]]
  /\ tpc' = [tpc EXCEPT ![c] =
               IF bucketNext[tnode[c]] = Null THEN "clear_heads" ELSE "clear_nodes"]
  /\ UNCHANGED <<bucketHead, root, nodeValue, owner, bucketNext, listNext,
                 ctorMem, allocations, built, calls, results, clears, cleared,
                 initCalls, tlsTotal, copyHead, copies>>
  /\ UNCHANGED tlsMore /\ UNCHANGED poolVars

\* a root that clear() forgets to reset
ClearRootKeep(c) ==
  /\ tpc[c] = "clear_heads"
  /\ \A i \in Buckets : bucketHead[i] = Null
  /\ tpc' = [tpc EXCEPT ![c] = "idle"]
  /\ ClearBooks
  /\ UNCHANGED <<bucketHead, root, nodeValue, owner, bucketNext, listNext,
                 nodeMem, ctorMem, allocations, built, tnode, initCalls,
                 copyHead, copies>>
  /\ UNCHANGED tlsMore /\ UNCHANGED poolVars

\* line 142: root = nullptr, after the last bucket; clear() returns
ClearRoot(c) ==
  /\ tpc[c] = "clear_heads"
  /\ \A i \in Buckets : bucketHead[i] = Null
  /\ root' = Null
  /\ tpc' = [tpc EXCEPT ![c] = "idle"]
  /\ ClearBooks
  /\ UNCHANGED <<bucketHead, nodeValue, owner, bucketNext, listNext, nodeMem,
                 ctorMem, allocations, built, tnode, initCalls, copyHead, copies>>
  /\ UNCHANGED tlsMore /\ UNCHANGED poolVars

\* line 223 with line 190 and line 120-121: ~tls destroys init (the functor
\* is deallocated), then storage, whose destructor starts with clear()
DtorBegin(c) ==
  /\ built = "yes" /\ TlsQuiescent /\ tpc[c] = "idle"
  /\ built' = "destroying"
  /\ ctorMem' = ctorMem \ {"functor"}
  /\ tpc' = [tpc EXCEPT ![c] = "clear_heads"]
  /\ UNCHANGED <<bucketHead, root, nodeValue, owner, bucketNext, listNext,
                 nodeMem, allocations, tnode, calls, results, clears, cleared,
                 initCalls, tlsTotal, copyHead, copies>>
  /\ UNCHANGED tlsMore /\ UNCHANGED poolVars

\* line 122-124: after clear() the bucket array is destroyed and deallocated
DtorEnd ==
  /\ built = "destroying" /\ ~ClearRunning
  /\ built' = "destroyed"
  /\ ctorMem' = {}
  /\ UNCHANGED <<bucketHead, root, nodeValue, owner, bucketNext, listNext,
                 nodeMem, allocations, tpc, tnode, calls, results, clears,
                 cleared, initCalls, tlsTotal, copyHead, copies>>
  /\ UNCHANGED tlsMore /\ UNCHANGED poolVars

\* the variant of unnamed/part_000, whose nodes are owned by the list from
\* root. line 121-123: auto ptr{root.exchange(nullptr)}
Clear0Begin(c) ==
  /\ built = "yes" /\ TlsQuiescent /\ tpc[c] = "idle" /\ clears < MaxClears
  /\ tnode' = [tnode EXCEPT ![c] = root]
  /\ root' = Null
  /\ tpc' = [tpc EXCEPT ![c] = "clear0_nodes"]
  /\ UNCHANGED <<bucketHead, nodeValue, owner, bucketNext, listNext, nodeMem,
                 ctorMem, allocations, built, calls, results, clears, cleared,
                 initCalls, tlsTotal, copyHead, copies>>
  /\ UNCHANGED tlsMore /\ UNCHANGED poolVars

\* part_000 line 124-127: old = ptr; ptr = ptr->list_next; destroy and
\* deallocate old
Clear0Free(c) ==
  /\ tpc[c] = "clear0_nodes" /\ tnode[c] # Null
  /\ nodeMem' = [nodeMem EXCEPT ![tnode[c]] = "free"]
  /\ tnode' = [tnode EXCEPT ![c] = listNext[tnode[c]]]
  /\ UNCHANGED <<bucketHead, root, nodeValue, owner, bucketNext, listNext,
                 ctorMem, allocations, built, tpc, calls, results, clears,
                 cleared, initCalls, tlsTotal, copyHead, copies>>
  /\ UNCHANGED tlsMore /\ UNCHANGED poolVars

\* part_000 line 129: buckets[i] = nullptr for every i; clear() returns
Clear0Buckets(c) ==
  /\ tpc[c] = "clear0_nodes" /\ tnode[c] = Null
  /\ bucketHead' = [i \in Buckets |-> Null]
  /\ tpc' = [tpc EXCEPT ![c] = "idle"]
  /\ ClearBooks
  /\ UNCHANGED <<root, nodeValue, owner, bucketNext, listNext, nodeMem, ctorMem,
                 allocations, built, tnode, initCalls, copyHead, copies>>
  /\ UNCHANGED tlsMore /\ UNCHANGED poolVars

\* line 113-117: atomic_unordered_map(alloc) allocates the bucket array
TlsCtorStorage ==
  /\ built = "no"
  /\ allocations' = Counted(allocations)
  /\ IF Rigged /\ allocations + 1 = FailAt
       THEN built' = "failed" /\ ctorMem' = ctorMem
       ELSE built' = "storage" /\ ctorMem' = ctorMem \cup {"buckets"}
  /\ UNCHANGED <<bucketHead, root, nodeValue, owner, bucketNext, listNext,
                 nodeMem, tpc, tnode, calls, results, clears, initCalls,
                 tlsTotal, copyHead, copies, cleared>>
  /\ UNCHANGED tlsMore /\ UNCHANGED poolVars

\* an initializer stored inside the object: no allocation
InitFuncInline(count) == count

\* line 181-184: init_func(func, alloc) allocates one object for the functor
InitFuncAllocates(count) == Counted(count)

\* line 212 with line 161-185: then init{std::move(func), allocator}; if that
\* throws, the storage built before it is destroyed
TlsCtorInit ==
  /\ built = "storage"
  /\ allocations' = InitFuncAllocates(allocations)
  /\ IF Rigged /\ allocations' # allocations /\ allocations' = FailAt
       THEN built' = "failed" /\ ctorMem' = {}
       ELSE built' = "yes" /\ ctorMem' = ctorMem \cup {"functor"}
  /\ UNCHANGED <<bucketHead, root, nodeValue, owner, bucketNext, listNext,
                 nodeMem, tpc, tnode, calls, results, clears, initCalls,
                 tlsTotal, copyHead, copies, cleared>>
  /\ UNCHANGED tlsMore /\ UNCHANGED poolVars

\* line 223 with line 190 and line 120-125: ~tls destroys init (the functor
\* is deallocated), then storage: clear(), then the bucket array
TlsDestroy ==
  /\ built = "yes" /\ TlsQuiescent
  /\ built' = "destroyed"
  /\ bucketHead' = [i \in Buckets |-> ClearHead(bucketHead[i])]
  /\ nodeMem' = [n \in TlsNodes |-> IF n \in Listed THEN "free" ELSE nodeMem[n]]
  /\ root' = Null
  /\ ctorMem' = {}
  /\ UNCHANGED <<nodeValue, owner, bucketNext, listNext, allocations, tpc,
                 tnode, calls, results, clears, initCalls, tlsTotal, copyHead,
                 copies, cleared>>
  /\ UNCHANGED tlsMore /\ UNCHANGED poolVars

LocalStep(t) ==
  \/ LocalAllocate(t) \/ LocalConstruct(t)
  \/ LocalBucketLoad(t) \/ LocalBucketCAS(t)
  \/ LocalRootLoad(t) \/ LocalRootCAS(t)

\* a constructed container used by NumTlsThreads threads
TlsInit == PoolInit({}) /\ TlsFresh(TlsThreads, NotRigged, TRUE)

\* concurrent local() calls of all threads, then ~tls
TlsNext ==
  \/ \E t \in TlsThreads : LocalFind(t) \/ LocalStep(t)
  \/ TlsDestroy

SpecTls == TlsInit /\ [][TlsNext]_vars

\* the threads that share a bucket with thread 1
ClearThreads == {t \in TlsThreads : BucketOf(t) = BucketOf(1)}

ClearInit == PoolInit({}) /\ TlsFresh(ClearThreads, NotRigged, TRUE)

\* test "tls clear" with concurrent callers: local() calls, clear() while no
\* call is running, local() calls again
ClearNext ==
  \/ \E t \in ClearThreads : LocalFind(t) \/ LocalStep(t)
  \/ TlsClear

SpecTlsClear == ClearInit /\ [][ClearNext]_vars

\* concurrent local() calls, then clear() and ~tls, step by step, while no
\* call is running
ClearStepsNext ==
  \E t \in TlsThreads :
    \/ (clears = 0 /\ ~ClearRunning /\ LocalFind(t)) \/ LocalStep(t)
    \/ ClearBegin(t) \/ ClearExchange(t) \/ ClearFree(t) \/ ClearRoot(t)
    \/ DtorBegin(t) \/ DtorEnd

SpecTlsClearSteps == TlsInit /\ [][ClearStepsNext]_vars

\* the same with the clear() of unnamed/part_000
Clear0Next ==
  \E t \in TlsThreads :
    \/ (clears = 0 /\ ~ClearRunning /\ LocalFind(t)) \/ LocalStep(t)
    \/ Clear0Begin(t) \/ Clear0Free(t) \/ Clear0Buckets(t)

SpecTlsClear0 == TlsInit /\ [][Clear0Next]_vars

\* the reduction: every worker adds its inputs to the entry local() gives it
TlsSumNext ==
  \E t \in TlsThreads :
    \/ LocalFind(t) \/ LocalStep(t)
    \/ \E v \in 1..MaxInput : TlsAdd(t, v)

SpecTlsSum == TlsInit /\ [][TlsSumNext]_vars

\* the allocator-propagation scenario: a tls built over an allocator whose
\* third allocate() throws; three threads call local() once each
RigThreads == 1..3

RigInit == PoolInit({}) /\ TlsFresh(RigThreads, 0, FALSE)

RigNext ==
  \/ TlsCtorStorage \/ TlsCtorInit
  \/ \E t \in RigThreads : (calls[t] = 0 /\ LocalFind(t)) \/ LocalStep(t)
  \/ ((\A t \in RigThreads : calls[t] = 1) /\ TlsDestroy)

SpecRigged == RigInit /\ [][RigNext]_vars

\* ------------------------------------------------------------- race_free

MaxEmplace == 1      \* handles emplace the values 1..MaxEmplace

Nullopt == -1        \* std::optional<T> value holding nothing

\* what no operation of race_free touches while the container lives
rfRest == <<freed, life, dptr, snap, tail, drained, hnd>>

\* race_free.hpp line 218-219: auto old{stack.load()}; for(; old.head;)
GetLoad(t) ==
  /\ CanStart(t)
  /\ old' = [old EXCEPT ![t] = Load(top)]
  /\ pc' = [pc EXCEPT ![t] = IF top.head # Null THEN "get_read" ELSE "get_gate"]
  /\ UNCHANGED <<top, next, value, blocks, blockNext, lock, allocd, nxt, blk,
                 held, rel, acc, total, solo>>
  /\ UNCHANGED rfRest /\ UNCHANGED tlsVars

\* the read of n's next races with the store of a handle being destroyed
GetReadRaces(t, n) ==
  \E u \in DOMAIN pc \ {t} : pc[u] = "put_link" /\ rel[u] = n

\* line 221: the argument old.head->next is read; the node may have been
\* popped since the load, and a racing read yields any pointer value
GetReadNext(t) ==
  /\ pc[t] = "get_read"
  /\ \E v \in (IF GetReadRaces(t, old[t].head) THEN Nodes \cup {Null} ELSE {})
                \cup {next[old[t].head]} :
       nxt' = [nxt EXCEPT ![t] = v]
  /\ pc' = [pc EXCEPT ![t] = "get_cas"]
  /\ UNCHANGED <<top, next, value, blocks, blockNext, lock, allocd, old, blk,
                 held, rel, acc, total, solo>>
  /\ UNCHANGED rfRest /\ UNCHANGED tlsVars

\* line 221-222: the CAS; on success return {&stack, old.head}
GetCAS(t) ==
  /\ pc[t] = "get_cas"
  /\ LET r == CompareExchange(top, old[t], PopDesired(old[t], nxt[t]))
     IN /\ top' = r.cell
        /\ IF r.ok
             THEN /\ held' = [held EXCEPT ![t] = @ \cup {old[t].head}]
                  /\ old' = [old EXCEPT ![t] = ZeroTP]
                  /\ pc' = [pc EXCEPT ![t] = "idle"]
             ELSE /\ held' = held
                  /\ old' = [old EXCEPT ![t] = r.expected]
                  /\ pc' = [pc EXCEPT ![t] =
                              IF r.expected.head # Null THEN "get_read" ELSE "get_gate"]
  /\ nxt' = [nxt EXCEPT ![t] = Null]
  /\ UNCHANGED <<next, value, blocks, blockNext, lock, allocd, blk, rel, acc,
                 total, solo>>
  /\ UNCHANGED rfRest /\ UNCHANGED tlsVars

\* line 226-231: guard{lock} : lock.acquire()
GetAcquire(t) ==
  /\ pc[t] = "get_gate"
  /\ lock = 1
  /\ lock' = 0
  /\ pc' = [pc EXCEPT ![t] = "get_recheck"]
  /\ UNCHANGED <<top, next, value, blocks, blockNext, allocd, old, nxt, blk,
                 held, rel, acc, total, solo>>
  /\ UNCHANGED rfRest /\ UNCHANGED tlsVars

\* line 232: if((old = stack.load()).head) goto retry
GetRecheck(t) ==
  /\ pc[t] = "get_recheck"
  /\ old' = [old EXCEPT ![t] = Load(top)]
  /\ pc' = [pc EXCEPT ![t] = IF top.head # Null THEN "get_unlock_retry"
                                               ELSE "get_alloc"]
  /\ UNCHANGED <<top, next, value, blocks, blockNext, lock, allocd, nxt, blk,
                 held, rel, acc, total, solo>>
  /\ UNCHANGED rfRest /\ UNCHANGED tlsVars

\* line 230: ~guard : lock.release(), run when the goto leaves guard's scope,
\* when an exception unwinds through it, and at the return
GetUnlock(t) ==
  /\ pc[t] \in {"get_unlock_retry", "get_unlock_throw", "get_unlock_ret"}
  /\ lock' = 1
  /\ pc' = [pc EXCEPT ![t] = CASE pc[t] = "get_unlock_retry" -> "get_read"
                               [] pc[t] = "get_unlock_throw" -> "threw"
                               [] OTHER -> "idle"]
  /\ old' = [old EXCEPT ![t] = IF pc[t] = "get_unlock_retry" THEN @ ELSE ZeroTP]
  /\ UNCHANGED <<top, next, value, blocks, blockNext, allocd, nxt, blk, held,
                 rel, acc, total, solo>>
  /\ UNCHANGED rfRest /\ UNCHANGED tlsVars

\* line 235: allocator_traits::allocate(allocator, 1), outside the try block;
\* it throws when memory is exhausted, and may throw at any other time
GetAllocate(t) ==
  /\ pc[t] = "get_alloc"
  /\ \/ /\ Cardinality(allocd) < MaxBlocks
        /\ LET b == CHOOSE x \in BlockIds : x \notin allocd /\
                      \A y \in BlockIds : y \notin allocd => x <= y
           IN /\ allocd' = allocd \cup {b}
              /\ blk' = [blk EXCEPT ![t] = b]
        /\ pc' = [pc EXCEPT ![t] = "get_construct"]
     \/ /\ pc' = [pc EXCEPT ![t] = "get_unlock_throw"]
        /\ UNCHANGED <<allocd, blk>>
  /\ UNCHANGED <<top, next, value, blocks, blockNext, lock, old, nxt, held,
                 rel, acc, total, solo>>
  /\ UNCHANGED rfRest /\ UNCHANGED tlsVars

\* line 21: std::optional<T> value, default-constructed: empty
SlotInit(n) == Nullopt

\* line 237-242: construct the block (every optional empty, every next null),
\* register it and link nodes 1..N-1; the last link points one past the end
\* until line 245 overwrites it
GetConstruct(t) ==
  /\ pc[t] = "get_construct"
  /\ blockNext' = [blockNext EXCEPT ![blk[t]] = blocks]
  /\ blocks' = blk[t]
  /\ next' = LinkedNodes(blk[t])
  /\ value' = [n \in Nodes |-> IF BlockOf(n) = blk[t] THEN SlotInit(n) ELSE value[n]]
  /\ pc' = [pc EXCEPT ![t] = "get_publish_link"]
  /\ UNCHANGED <<top, lock, allocd, old, nxt, blk, held, rel, acc, total, solo>>
  /\ UNCHANGED rfRest /\ UNCHANGED tlsVars

\* line 245: block->nodes[nodes_per_block - 1].next = old.head
GetPublishLink(t) ==
  /\ pc[t] = "get_publish_link"
  /\ next' = [next EXCEPT ![NodeAt(blk[t], NodesPerBlock - 1)] = old[t].head]
  /\ pc' = [pc EXCEPT ![t] = "get_publish_cas"]
  /\ UNCHANGED <<top, value, blocks, blockNext, lock, allocd, old, nxt, blk,
                 held, rel, acc, total, solo>>
  /\ UNCHANGED rfRest /\ UNCHANGED tlsVars

\* line 246-248: the CAS to {block->nodes + 1, old.tag + 1}; on success
\* return {&stack, block->nodes}
GetPublishCAS(t) ==
  /\ pc[t] = "get_publish_cas"
  /\ LET r == CompareExchange(top, old[t], PushDesired(old[t], NodeAt(blk[t], 1)))
     IN /\ top' = r.cell
        /\ old' = [old EXCEPT ![t] = r.expected]
        /\ IF r.ok
             THEN /\ held' = [held EXCEPT ![t] = @ \cup {NodeAt(blk[t], 0)}]
                  /\ blk' = [blk EXCEPT ![t] = Null]
                  /\ pc' = [pc EXCEPT ![t] = "get_unlock_ret"]
             ELSE /\ pc' = [pc EXCEPT ![t] = "get_publish_link"]
                  /\ UNCHANGED <<held, blk>>
  /\ UNCHANGED <<next, value, blocks, blockNext, lock, allocd, nxt, rel, acc,
                 total, solo>>
  /\ UNCHANGED rfRest /\ UNCHANGED tlsVars

\* a presence test that always reports an empty slot
HasValueNever(n) == FALSE

\* line 173-176: handle::operator bool : ptr->value.has_value()
HasValue(n) == value[n] # Nullopt

\* line 184-189: handle::emplace(v) on the handle of node n
Emplace(t, n, v) ==
  /\ life = "alive" /\ pc[t] = "idle" /\ n \in held[t]
  /\ value' = [value EXCEPT ![n] = v]
  /\ solo' = NoSolo
  /\ UNCHANGED <<top, next, blocks, blockNext, lock, allocd, pc, old, nxt, blk,
                 held, rel, acc, total>>
  /\ UNCHANGED rfRest /\ UNCHANGED tlsVars

\* line 197-200: handle::reset() on the handle of node n
HandleReset(t, n) ==
  /\ life = "alive" /\ pc[t] = "idle" /\ n \in held[t]
  /\ HasValue(n)
  /\ value' = [value EXCEPT ![n] = Nullopt]
  /\ solo' = NoSolo
  /\ UNCHANGED <<top, next, blocks, blockNext, lock, allocd, pc, old, nxt, blk,
                 held, rel, acc, total>>
  /\ UNCHANGED rfRest /\ UNCHANGED tlsVars

\* the worker of test "race_free", once per handle:
\* if(!handle) handle.emplace(val); else *handle += val;
Work(t, n, v) ==
  /\ life = "alive" /\ pc[t] = "idle" /\ n \in held[t]
  /\ acc[t] = NoAcc
  /\ value' = [value EXCEPT ![n] = IF HasValue(n) THEN @ + v ELSE v]
  /\ acc' = [acc EXCEPT ![t] = [node |-> n, val |-> value'[n], inp |-> v]]
  /\ total' = total + v
  /\ UNCHANGED <<top, next, blocks, blockNext, lock, allocd, pc, old, nxt, blk,
                 held, rel, solo>>
  /\ UNCHANGED rfRest /\ UNCHANGED tlsVars

\* line 165: ~handle of node n: auto old{owner->load()}
PutLoad(t, n) ==
  /\ CanStart(t)
  /\ n \in held[t]
  /\ rel' = [rel EXCEPT ![t] = n]
  /\ old' = [old EXCEPT ![t] = Load(top)]
  /\ pc' = [pc EXCEPT ![t] = "put_link"]
  /\ solo' = NoSolo
  /\ UNCHANGED <<top, next, value, blocks, blockNext, lock, allocd, nxt, blk,
                 held, acc, total>>
  /\ UNCHANGED rfRest /\ UNCHANGED tlsVars

\* line 166: ptr->next = old.head
PutLink(t) ==
  /\ pc[t] = "put_link"
  /\ next' = [next EXCEPT ![rel[t]] = old[t].head]
  /\ pc' = [pc EXCEPT ![t] = "put_cas"]
  /\ UNCHANGED <<top, value, blocks, blockNext, lock, allocd, old, nxt, blk,
                 held, rel, acc, total, solo>>
  /\ UNCHANGED rfRest /\ UNCHANGED tlsVars

\* line 167-168: the CAS to {ptr, old.tag + 1}; the handle is gone once it
\* succeeded
PutCAS(t) ==
  /\ pc[t] = "put_cas"
  /\ LET r == CompareExchange(top, old[t], PushDesired(old[t], rel[t]))
     IN /\ top' = r.cell
        /\ IF r.ok
             THEN /\ held' = [held EXCEPT ![t] = @ \ {rel[t]}]
                  /\ rel' = [rel EXCEPT ![t] = Null]
                  /\ old' = [old EXCEPT ![t] = ZeroTP]
                  /\ acc' = [acc EXCEPT ![t] = NoAcc]
                  /\ pc' = [pc EXCEPT ![t] = "idle"]
             ELSE /\ old' = [old EXCEPT ![t] = r.expected]
                  /\ pc' = [pc EXCEPT ![t] = "put_link"]
                  /\ UNCHANGED <<held, rel, acc>>
  /\ UNCHANGED <<next, value, blocks, blockNext, lock, allocd, nxt, blk, total,
                 solo>>
  /\ UNCHANGED rfRest /\ UNCHANGED tlsVars

\* no thread is inside an operation and no handle is alive
NoHandles == life = "alive" /\ \A t \in DOMAIN pc : Idle(t) /\ held[t] = {}

\* the nodes of the blocks on the container's block list
ListedNodes == {n \in Nodes : \E k \in 1..Len(BlockList) : BlockList[k] = BlockOf(n)}

\* the slots that hold a value
Occupied == {n \in ListedNodes : value[n] # Nullopt}

\* a reset() that stops after the first block
ResetValueFirstBlock(n) == IF BlockOf(n) = blocks THEN Nullopt ELSE value[n]

\* line 257-259: node.value.reset() for every node of every block
ResetValue(n) == IF n \in ListedNodes THEN Nullopt ELSE value[n]

\* line 255-260: race_free::reset(), called with no live handles
Reset ==
  /\ NoHandles
  /\ Occupied # {}
  /\ value' = [n \in Nodes |-> ResetValue(n)]
  /\ solo' = [thr |-> 0, kind |-> "reset", data |-> <<Cardinality(Occupied)>>]
  /\ UNCHANGED <<top, next, blocks, blockNext, lock, allocd, pc, old, nxt, blk,
                 held, rel, acc, total>>
  /\ UNCHANGED rfRest /\ UNCHANGED tlsVars

\* a position of iterator_t: its members ptr and index
IterEnd == [ptr |-> Null, index |-> 0]

\* one  ++index; if(index == nodes_per_block) { ptr = ptr->next; index = 0; }
IterStep(it) ==
  IF it.index + 1 = NodesPerBlock
    THEN [ptr |-> blockNext[it.ptr], index |-> 0]
    ELSE [ptr |-> it.ptr, index |-> it.index + 1]

\* the slot an iterator position names
SlotOf(it) == NodeAt(it.ptr, it.index)

\* the position names a slot and that slot holds nothing
AtEmpty(it) == it.ptr # Null /\ value[SlotOf(it)] = Nullopt

\* line 99-105: the loop of iterator_t's constructor on its position it
RECURSIVE CtorScan(_, _)
CtorScan(it, fuel) ==
  IF fuel > 0 /\ AtEmpty(it) THEN CtorScan(IterStep(it), fuel - 1) ELSE it

\* the steps any scan over the blocks can take
ScanFuel == Cardinality(Nodes) + 1

\* line 98-106: iterator_t(block * ptr) : ptr{ptr}. Inside the body ptr names
\* the parameter, which hides the member, and index names the member: the
\* loop advances the parameter and the member index, the member ptr keeps
\* its initial value
IterCtor(b) ==
  [ptr |-> b, index |-> CtorScan([ptr |-> b, index |-> 0], ScanFuel).index]

\* line 271-274: begin() { return blocks; }  end() { return {}; }
IterBegin == IterCtor(blocks)

\* line 116-126: operator++, a do-while over the members
RECURSIVE IterNextFrom(_, _)
IterNextFrom(it, fuel) ==
  LET s == IterStep(it)
  IN IF fuel > 0 /\ AtEmpty(s) THEN IterNextFrom(s, fuel - 1) ELSE s

IterNext(it) == IterNextFrom(it, ScanFuel)

\* the positions for(it = begin(); it != end(); ++it) goes through
RECURSIVE IterateFrom(_, _)
IterateFrom(it, fuel) ==
  IF it = IterEnd \/ fuel = 0 THEN <<>>
  ELSE <<it>> \o IterateFrom(IterNext(it), fuel - 1)

Iterate == IterateFrom(IterBegin, ScanFuel)

\* any use of one race_free container by NumThreads threads: handles are
\* taken, filled, emptied and dropped; reset() runs when no handle is alive
RfInit == InitFor(Threads)

RfNext ==
  \/ \E t \in Threads :
       \/ GetLoad(t) \/ GetReadNext(t) \/ GetCAS(t)
       \/ GetAcquire(t) \/ GetRecheck(t) \/ GetUnlock(t)
       \/ GetAllocate(t) \/ GetConstruct(t)
       \/ GetPublishLink(t) \/ GetPublishCAS(t)
       \/ \E n \in Nodes : \E v \in 1..MaxEmplace : Emplace(t, n, v)
       \/ \E n \in Nodes : HandleReset(t, n)
       \/ \E n \in Nodes : PutLoad(t, n)
       \/ PutLink(t) \/ PutCAS(t)
  \/ Reset

SpecRaceFree == RfInit /\ [][RfNext]_vars

\* ------------------------------------------- race_free::handle, moved

MaxHandles == 2      \* handle objects a thread has in scope at once

\* line 150: handle(owner, ptr) : the object get() returns
NewHandle(n) == [owner |-> TRUE, ptr |-> n]

\* the sequence s without its k-th element
Without(s, k) == [i \in 1..(Len(s) - 1) |-> IF i < k THEN s[i] ELSE s[i + 1]]

\* get() may be called: the caller has room for the handle
CanGet(t) == Len(hnd[t]) < MaxHandles

\* line 221-222: the CAS of get(); on success return {&stack, old.head}
GetCASHandle(t) ==
  /\ pc[t] = "get_cas"
  /\ LET r == CompareExchange(top, old[t], PopDesired(old[t], nxt[t]))
     IN /\ top' = r.cell
        /\ IF r.ok
             THEN /\ held' = [held EXCEPT ![t] = @ \cup {old[t].head}]
                  /\ hnd' = [hnd EXCEPT ![t] = Append(@, NewHandle(old[t].head))]
                  /\ old' = [old EXCEPT ![t] = ZeroTP]
                  /\ pc' = [pc EXCEPT ![t] = "idle"]
             ELSE /\ UNCHANGED <<held, hnd>>
                  /\ old' = [old EXCEPT ![t] = r.expected]
                  /\ pc' = [pc EXCEPT ![t] =
                              IF r.expected.head # Null THEN "get_read" ELSE "get_gate"]
  /\ nxt' = [nxt EXCEPT ![t] = Null]
  /\ UNCHANGED <<next, value, blocks, blockNext, lock, allocd, blk, rel, acc,
                 total, solo, freed, life, dptr, snap, tail, drained>>
  /\ UNCHANGED tlsVars

\* line 246-248: the CAS that publishes the block; on success
\* return {&stack, block->nodes}
GetPublishCASHandle(t) ==
  /\ pc[t] = "get_publish_cas"
  /\ LET r == CompareExchange(top, old[t], PushDesired(old[t], NodeAt(blk[t], 1)))
     IN /\ top' = r.cell
        /\ old' = [old EXCEPT ![t] = r.expected]
        /\ IF r.ok
             THEN /\ held' = [held EXCEPT ![t] = @ \cup {NodeAt(blk[t], 0)}]
                  /\ hnd' = [hnd EXCEPT ![t] = Append(@, NewHandle(NodeAt(blk[t], 0)))]
                  /\ blk' = [blk EXCEPT ![t] = Null]
                  /\ pc' = [pc EXCEPT ![t] = "get_unlock_ret"]
             ELSE /\ pc' = [pc EXCEPT ![t] = "get_publish_link"]
                  /\ UNCHANGED <<held, hnd, blk>>
  /\ UNCHANGED <<next, value, blocks, blockNext, lock, allocd, nxt, rel, acc,
                 total, solo, freed, life, dptr, snap, tail, drained>>
  /\ UNCHANGED tlsVars

\* a move constructor that copies the owner and leaves it in the source
MovedFromOwnerKept(o) == o

\* line 153: std::exchange(other.owner, nullptr) leaves nullptr in the source
MovedFromOwner(o) == FALSE

\* line 153: handle(handle && other) on the k-th handle of thread t: the new
\* object takes owner and ptr, the source keeps ptr and loses owner
HandleMoveCtor(t, k) ==
  /\ pc[t] = "idle" /\ k \in DOMAIN hnd[t] /\ Len(hnd[t]) < MaxHandles
  /\ hnd' = [hnd EXCEPT ![t] =
               Append([@ EXCEPT ![k].owner = MovedFromOwner(@)], hnd[t][k])]
  /\ UNCHANGED <<top, next, value, blocks, blockNext, lock, allocd, freed, life,
                 dptr, pc, old, nxt, blk, held, rel, snap, tail, acc, total,
                 solo, drained>>
  /\ UNCHANGED tlsVars

\* line 155-159: operator=(handle && other) swaps owner and ptr of the j-th
\* and the k-th handle, and then flows off the end of a function that returns
\* handle &: undefined behaviour, after which the program goes on or dies
HandleMoveAssign(t, j, k) ==
  /\ pc[t] = "idle" /\ j \in DOMAIN hnd[t] /\ k \in DOMAIN hnd[t] /\ j # k
  /\ hnd' = [hnd EXCEPT ![t] = [@ EXCEPT ![j] = hnd[t][k], ![k] = hnd[t][j]]]
  /\ life' \in {"alive", "crashed"}
  /\ UNCHANGED <<top, next, value, blocks, blockNext, lock, allocd, freed,
                 dptr, pc, old, nxt, blk, held, rel, snap, tail, acc, total,
                 solo, drained>>
  /\ UNCHANGED tlsVars

\* line 161-165: ~handle of the k-th handle: if(!owner) return; else
\* auto old{owner->load()} and on to the push of ptr
HandleDestroy(t, k) ==
  /\ pc[t] = "idle" /\ k \in DOMAIN hnd[t]
  /\ hnd' = [hnd EXCEPT ![t] = Without(@, k)]
  /\ IF hnd[t][k].owner
       THEN /\ top.tag < MaxTag
            /\ rel' = [rel EXCEPT ![t] = hnd[t][k].ptr]
            /\ old' = [old EXCEPT ![t] = Load(top)]
            /\ pc' = [pc EXCEPT ![t] = "put_link"]
       ELSE UNCHANGED <<rel, old, pc>>
  /\ UNCHANGED <<top, next, value, blocks, blockNext, lock, allocd, freed, life,
                 dptr, nxt, blk, held, snap, tail, acc, total, solo, drained>>
  /\ UNCHANGED tlsVars

\* handles are taken, moved into new handles, move-assigned and destroyed
RfMoveNext ==
  \E t \in Threads :
    \/ (life = "alive" /\ CanGet(t) /\ GetLoad(t))
    \/ (life = "alive" /\ GetReadNext(t))
    \/ (life = "alive" /\ GetCASHandle(t))
    \/ (life = "alive" /\ GetAcquire(t))
    \/ (life = "alive" /\ GetRecheck(t))
    \/ (life = "alive" /\ GetUnlock(t))
    \/ (life = "alive" /\ GetAllocate(t))
    \/ (life = "alive" /\ GetConstruct(t))
    \/ (life = "alive" /\ GetPublishLink(t))
    \/ (life = "alive" /\ GetPublishCASHandle(t))
    \/ \E k \in 1..MaxHandles : (life = "alive" /\ HandleMoveCtor(t, k))
    \/ \E j, k \in 1..MaxHandles : (life = "alive" /\ HandleMoveAssign(t, j, k))
    \/ \E k \in 1..MaxHandles : (life = "alive" /\ HandleDestroy(t, k))
    \/ (life = "alive" /\ PutLink(t))
    \/ (life = "alive" /\ PutCAS(t))

SpecRfMove == RfInit /\ [][RfMoveNext]_vars

NumWorkers == 3      \* workers of the race_free reduction
MaxWorkSum == 4      \* the workers' inputs are added while their sum stays <= MaxWorkSum

Workers == 1..NumWorkers

\* the reduction of test "race_free": every worker takes one handle, runs
\* if(!handle) handle.emplace(val); else *handle += val;  and drops it
RfReduceInit == InitFor(Workers)

RfReduceNext ==
  \E t \in Workers :
    \/ (held[t] = {} /\ GetLoad(t))
    \/ GetReadNext(t) \/ GetCAS(t)
    \/ GetAcquire(t) \/ GetRecheck(t) \/ GetUnlock(t)
    \/ GetAllocate(t) \/ GetConstruct(t)
    \/ GetPublishLink(t) \/ GetPublishCAS(t)
    \/ \E n \in Nodes : \E v \in 1..MaxInput : (total + v <= MaxWorkSum /\ Work(t, n, v))
    \/ \E n \in Nodes : (acc[t].node = n /\ PutLoad(t, n))
    \/ PutLink(t) \/ PutCAS(t)

SpecRfReduce == RfReduceInit /\ [][RfReduceNext]_vars

\* ------------------------------------------------ tls, the copyable variant

MaxCopies == 2       \* copies made of one tls container

\* what the copyable variant does not have or does not touch
copyRest == <<root, listNext, ctorMem, allocations, built, clears, cleared,
              tlsTotal>>

\* atomic_forward_list::local, lookup: the caller's node or the way to new
CopyableFind(t) ==
  /\ TlsIdle(t) /\ calls[t] < MaxCalls
  /\ calls' = [calls EXCEPT ![t] = @ + 1]
  /\ LET n == Find(bucketHead[BucketOf(t)], t)
     IN IF n # Null
          THEN /\ results' = [results EXCEPT ![t] = Append(@, <<n, FALSE>>)]
               /\ tpc' = [tpc EXCEPT ![t] = "idle"]
          ELSE /\ results' = results
               /\ tpc' = [tpc EXCEPT ![t] = "new"]
  /\ UNCHANGED <<bucketHead, nodeValue, owner, bucketNext, nodeMem, tnode,
                 initCalls, copyHead, copies>>
  /\ UNCHANGED copyRest /\ UNCHANGED tlsMore /\ UNCHANGED poolVars

\* auto ptr{new node(init)}: memory and init() in one expression; when either
\* throws nothing is kept
CopyableNew(t) ==
  /\ tpc[t] = "new"
  /\ \/ /\ \E n \in TlsNodes : nodeMem[n] = "free"
        /\ nodeMem' = [nodeMem EXCEPT ![FreeNode] = "live"]
        /\ nodeValue' = [nodeValue EXCEPT ![FreeNode] = InitCall]
        /\ owner' = [owner EXCEPT ![FreeNode] = t]
        /\ bucketNext' = [bucketNext EXCEPT ![FreeNode] = Null]
        /\ tnode' = [tnode EXCEPT ![t] = FreeNode]
        /\ initCalls' = initCalls + 1
        /\ tpc' = [tpc EXCEPT ![t] = "new_load"]
     \/ /\ tpc' = [tpc EXCEPT ![t] = "threw"]
        /\ UNCHANGED <<nodeMem, nodeValue, owner, bucketNext, tnode, initCalls>>
  /\ UNCHANGED <<bucketHead, calls, results, copyHead, copies>>
  /\ UNCHANGED copyRest /\ UNCHANGED tlsMore /\ UNCHANGED poolVars

\* ptr->next = head.load()
CopyableLoad(t) ==
  /\ tpc[t] = "new_load"
  /\ bucketNext' = [bucketNext EXCEPT ![tnode[t]] = bucketHead[BucketOf(t)]]
  /\ tpc' = [tpc EXCEPT ![t] = "new_cas"]
  /\ UNCHANGED <<bucketHead, nodeValue, owner, nodeMem, tnode, calls, results,
                 initCalls, copyHead, copies>>
  /\ UNCHANGED copyRest /\ UNCHANGED tlsMore /\ UNCHANGED poolVars

\* while(!head.compare_exchange_weak(ptr->next, ptr)); return {ptr->value, true}
CopyableCAS(t) ==
  /\ tpc[t] = "new_cas"
  /\ LET i == BucketOf(t)
         r == CompareExchangeWeak(bucketHead[i], bucketNext[tnode[t]], tnode[t])
     IN /\ bucketHead' = [bucketHead EXCEPT ![i] = r.cell]
        /\ bucketNext' = [bucketNext EXCEPT ![tnode[t]] = r.expected]
        /\ IF r.ok
             THEN /\ results' = [results EXCEPT ![t] = Append(@, <<tnode[t], TRUE>>)]
                  /\ tnode' = [tnode EXCEPT ![t] = Null]
                  /\ tpc' = [tpc EXCEPT ![t] = "idle"]
             ELSE UNCHANGED <<results, tnode, tpc>>
  /\ UNCHANGED <<nodeValue, owner, nodeMem, calls, initCalls, copyHead, copies>>
  /\ UNCHANGED copyRest /\ UNCHANGED tlsMore /\ UNCHANGED poolVars

\* the thread of test "tls copy":  std::get<0>(tls0.local()) = i
CopyableAssign(t, v) ==
  /\ tpc[t] = "idle" /\ results[t] # <<>>
  /\ nodeValue[Mine(t)] # v
  /\ nodeValue' = [nodeValue EXCEPT ![Mine(t)] = v]
  /\ UNCHANGED <<bucketHead, owner, bucketNext, nodeMem, tpc, tnode, calls,
                 results, initCalls, copyHead, copies>>
  /\ UNCHANGED copyRest /\ UNCHANGED tlsMore /\ UNCHANGED poolVars

\* atomic_unordered_map::iterator_t, the seek loop of its constructor and of
\* operator++: the first bucket from index on that is not empty
RECURSIVE MapSeek(_, _)
MapSeek(heads, index) ==
  IF index >= BucketCount THEN [index |-> BucketCount, it |-> Null]
  ELSE IF heads[index] # Null THEN [index |-> index, it |-> heads[index]]
  ELSE MapSeek(heads, index + 1)

\* iterator_t::operator++ : ++it, and on the bucket's end the next bucket
MapNext(heads, p) ==
  IF bucketNext[p.it] # Null THEN [index |-> p.index, it |-> bucketNext[p.it]]
  ELSE MapSeek(heads, p.index + 1)

\* the nodes  for(it = begin(); it != end(); ++it)  goes through; iterators
\* compare by their list iterator alone
RECURSIVE MapIterateFrom(_, _, _)
MapIterateFrom(heads, p, fuel) ==
  IF p.it = Null \/ fuel = 0 THEN <<>>
  ELSE <<p.it>> \o MapIterateFrom(heads, MapNext(heads, p), fuel - 1)

MapIterate(heads) == MapIterateFrom(heads, MapSeek(heads, 0), MaxTlsNodes + 1)

\* the free nodes in the order operator new hands them out
FreeSeq ==
  LET F == {n \in TlsNodes : nodeMem[n] = "free"}
  IN [k \in 1..Cardinality(F) |-> CHOOSE n \in F : Cardinality({m \in F : m < n}) = k - 1]

\* the position of node n in the sequence src
PositionOf(src, n) == CHOOSE k \in 1..Len(src) : src[k] = n

\* a list copy that pushes every copied node at the front
CopyLinksPrepend(src, new) ==
  [head |-> [i \in Buckets |->
               IF bucketHead[i] = Null THEN Null
               ELSE new[PositionOf(src, BucketList(i)[Len(BucketList(i))])]],
   nxt  |-> [k \in 1..Len(src) |->
               IF \E i \in Buckets : bucketHead[i] = src[k] THEN Null ELSE new[k - 1]]]

\* atomic_forward_list(const atomic_forward_list &): every copied node is
\* linked behind the one copied before it, the first becomes the head.
\* src are the source's nodes in iteration order, new[k] is the copy of src[k]
CopyLinks(src, new) ==
  [head |-> [i \in Buckets |->
               IF bucketHead[i] = Null THEN Null
               ELSE new[PositionOf(src, bucketHead[i])]],
   nxt  |-> [k \in 1..Len(src) |->
               IF bucketNext[src[k]] = Null THEN Null ELSE new[k + 1]]]

\* atomic_unordered_map(const atomic_unordered_map &) into the buckets of the
\* destination: buckets[i] = ptr[i] for every i. node(const node &) copies
\* value and owner. Whatever the destination held before stays allocated
CopyInto ==
  LET src == MapIterate(bucketHead)
      new == FreeSeq
      l   == CopyLinks(src, new)
      at(n) == PositionOf(new, n)
      fresh == {new[k] : k \in 1..Len(src)}
  IN /\ Len(src) <= Len(new)
     /\ nodeMem' = [n \in TlsNodes |-> IF n \in fresh THEN "live" ELSE nodeMem[n]]
     /\ nodeValue' = [n \in TlsNodes |->
                        IF n \in fresh THEN nodeValue[src[at(n)]] ELSE nodeValue[n]]
     /\ owner' = [n \in TlsNodes |->
                    IF n \in fresh THEN owner[src[at(n)]] ELSE owner[n]]
     /\ bucketNext' = [n \in TlsNodes |->
                         IF n \in fresh THEN l.nxt[at(n)] ELSE bucketNext[n]]
     /\ copyHead' = l.head

\* a copy that throws (operator new, or T's copy constructor): the catch
\* blocks delete what was copied so far and nothing is left of the attempt
CopyThrows ==
  UNCHANGED <<nodeMem, nodeValue, owner, bucketNext, copyHead, copies>>

\* const auto tls1{tls0}; tls(const tls &) = default, made while no thread is
\* inside local()
CopyConstruct ==
  /\ TlsQuiescent /\ copies = 0
  /\ \/ CopyInto /\ copies' = copies + 1
     \/ CopyThrows
  /\ UNCHANGED <<bucketHead, tpc, tnode, calls, results, initCalls>>
  /\ UNCHANGED copyRest /\ UNCHANGED tlsMore /\ UNCHANGED poolVars

\* tls2 = tls0; operator=(tls other): the parameter is a copy of the source,
\* swap() gives the destination the copy's buckets and the parameter the
\* destination's old ones
CopyAssign ==
  /\ TlsQuiescent /\ copies < MaxCopies
  /\ \/ CopyInto /\ copies' = copies + 1
     \/ CopyThrows
  /\ UNCHANGED <<bucketHead, tpc, tnode, calls, results, initCalls>>
  /\ UNCHANGED copyRest /\ UNCHANGED tlsMore /\ UNCHANGED poolVars

\* threads fill one tls container, which is copied into a second one
CopyNext ==
  \/ \E t \in TlsThreads :
       \/ CopyableFind(t) \/ CopyableNew(t) \/ CopyableLoad(t) \/ CopyableCAS(t)
       \/ \E v \in 1..MaxInput : CopyableAssign(t, v)
  \/ CopyConstruct \/ CopyAssign

SpecTlsCopy == TlsInit /\ [][CopyNext]_vars

\* ------------------------------------------------- tls, the movable variant

\* buckets == nullptr: a container that owns no bucket array
NoBuckets == <<>>

\* atomic_unordered_map::begin(): iterator_t(buckets.load()) looks for a
\* first entry only if(buckets); without an array its list iterator is null
TlsIterate(heads) == IF heads = NoBuckets THEN <<>> ELSE MapIterate(heads)

\* a move that reads the source's pointer and leaves it in place
ExchangeKeep(h) == h

\* other.buckets.exchange(nullptr): what is left in the source
ExchangeNull(h) == NoBuckets

\* auto tls1{std::move(tls0)}; tls(tls &&) = default: the destination takes
\* the source's bucket array. copies counts the moves made so far
MoveConstruct ==
  /\ TlsQuiescent /\ copies = 0
  /\ copyHead' = bucketHead
  /\ bucketHead' = ExchangeNull(bucketHead)
  /\ copies' = copies + 1
  /\ UNCHANGED <<nodeValue, owner, bucketNext, nodeMem, tpc, tnode, calls,
                 results, initCalls>>
  /\ UNCHANGED copyRest /\ UNCHANGED tlsMore /\ UNCHANGED poolVars

\* tls1 = std::move(tls0); operator=(tls other): other is move-constructed
\* from the source, swap() gives the destination other's bucket array and
\* other the destination's old one, which other's destructor does not free
MoveAssign ==
  /\ TlsQuiescent /\ copies < MaxCopies /\ copies % 2 = 0
  /\ copyHead' = bucketHead
  /\ bucketHead' = ExchangeNull(bucketHead)
  /\ copies' = copies + 1
  /\ UNCHANGED <<nodeValue, owner, bucketNext, nodeMem, tpc, tnode, calls,
                 results, initCalls>>
  /\ UNCHANGED copyRest /\ UNCHANGED tlsMore /\ UNCHANGED poolVars

\* tls0 = std::move(tls1): the same assignment back into the first container
MoveAssignBack ==
  /\ TlsQuiescent /\ copies < MaxCopies /\ copies % 2 = 1
  /\ bucketHead' = copyHead
  /\ copyHead' = ExchangeNull(copyHead)
  /\ copies' = copies + 1
  /\ UNCHANGED <<nodeValue, owner, bucketNext, nodeMem, tpc, tnode, calls,
                 results, initCalls>>
  /\ UNCHANGED copyRest /\ UNCHANGED tlsMore /\ UNCHANGED poolVars

\* threads fill one tls container, which is then moved to a second one and
\* back
MoveNext ==
  \/ \E t \in TlsThreads :
       \/ (copies = 0 /\ CopyableFind(t))
       \/ CopyableNew(t) \/ CopyableLoad(t) \/ CopyableCAS(t)
       \/ \E v \in 1..MaxInput : CopyableAssign(t, v)
  \/ MoveConstruct \/ MoveAssign \/ MoveAssignBack

SpecTlsMove == TlsInit /\ [][MoveNext]_vars

\* --------------------------------- tls, local() on a moved-from container

\* a compare_exchange_strong that stores desired whatever the pointer is
CompareExchangeStore(cell, expected, desired) ==
  [ok |-> TRUE, cell |-> desired, expected |-> expected]

\* part_001 line 211: std::atomic<atomic_forward_list *>::compare_exchange_strong
CompareExchangeStrong(cell, expected, desired) ==
  IF cell = expected
    THEN [ok |-> TRUE, cell |-> desired, expected |-> expected]
    ELSE [ok |-> FALSE, cell |-> cell, expected |-> cell]

\* part_001 line 184: buckets{new atomic_forward_list[bucket_count]}
MovedInit == PoolInit({}) /\ TlsBase(TlsThreads, NotRigged, TRUE)
                          /\ MoreFresh(TlsThreads, CtorArray, Null)

movedRest == <<bucketHead, root, listNext, ctorMem, allocations, built, clears,
               cleared, tlsTotal, copyHead, buckets2, gone, listHead, walk>>

\* part_001 line 195, auto tls1{std::move(tls0)}: other.buckets.exchange(nullptr)
\* leaves tls0 without a bucket array; tls1 owns the array tls0 had
MovedFrom ==
  /\ TlsQuiescent /\ copies = 0 /\ buckets # Null
  /\ buckets' = Null
  /\ copies' = copies + 1
  /\ UNCHANGED <<arrMem, arrHead, bptr, nodeValue, owner, bucketNext, nodeMem,
                 tpc, tnode, calls, results, initCalls>>
  /\ UNCHANGED movedRest /\ UNCHANGED poolVars

\* line 207-208: auto bptr{buckets.load()}; if(!bptr)
MovedLoad(t) ==
  /\ TlsIdle(t) /\ calls[t] < MaxCalls
  /\ calls' = [calls EXCEPT ![t] = @ + 1]
  /\ bptr' = [bptr EXCEPT ![t] = buckets]
  /\ tpc' = [tpc EXCEPT ![t] = IF buckets = Null THEN "arr_new" ELSE "find"]
  /\ UNCHANGED <<buckets, arrMem, arrHead, nodeValue, owner, bucketNext,
                 nodeMem, tnode, results, initCalls, copies>>
  /\ UNCHANGED movedRest /\ UNCHANGED poolVars

\* line 209: auto ptr{new atomic_forward_list[bucket_count]}, the array named
\* by the thread, every head{nullptr}; or operator new[] throws
MovedNewArray(t) ==
  /\ tpc[t] = "arr_new"
  /\ \/ /\ arrMem[t] = "free"
        /\ arrMem' = [arrMem EXCEPT ![t] = "live"]
        /\ arrHead' = [arrHead EXCEPT ![t] = [i \in Buckets |-> Null]]
        /\ tpc' = [tpc EXCEPT ![t] = "arr_cas"]
     \/ /\ tpc' = [tpc EXCEPT ![t] = "threw"]
        /\ UNCHANGED <<arrMem, arrHead>>
  /\ UNCHANGED <<buckets, bptr, nodeValue, owner, bucketNext, nodeMem, tnode,
                 calls, results, initCalls, copies>>
  /\ UNCHANGED movedRest /\ UNCHANGED poolVars

\* line 210-214: atomic_forward_list * expected{nullptr};
\* if(buckets.compare_exchange_strong(expected, ptr)) bptr = ptr;
\* else the thread goes on to delete[] ptr; bptr = expected
MovedInstall(t) ==
  /\ tpc[t] = "arr_cas"
  /\ LET r == CompareExchangeStrong(buckets, Null, t)
     IN /\ buckets' = r.cell
        /\ IF r.ok
             THEN /\ bptr' = [bptr EXCEPT ![t] = t]
                  /\ tpc' = [tpc EXCEPT ![t] = "find"]
             ELSE /\ bptr' = [bptr EXCEPT ![t] = r.expected]
                  /\ tpc' = [tpc EXCEPT ![t] = "arr_delete"]
  /\ UNCHANGED <<arrMem, arrHead, nodeValue, owner, bucketNext, nodeMem, tnode,
                 calls, results, initCalls, copies>>
  /\ UNCHANGED movedRest /\ UNCHANGED poolVars

\* line 213: delete[] ptr, of an array whose lists are empty
MovedDelete(t) ==
  /\ tpc[t] = "arr_delete"
  /\ arrMem' = [arrMem EXCEPT ![t] = "deleted"]
  /\ tpc' = [tpc EXCEPT ![t] = "find"]
  /\ UNCHANGED <<buckets, arrHead, bptr, nodeValue, owner, bucketNext, nodeMem,
                 tnode, calls, results, initCalls, copies>>
  /\ UNCHANGED movedRest /\ UNCHANGED poolVars

\* line 216-222 and 106-109: bptr[ind].local(init), lookup in the thread's
\* bucket of the array bptr: the caller's node or the way to new node(init)
MovedFind(t) ==
  /\ tpc[t] = "find"
  /\ LET n == Find(arrHead[bptr[t]][BucketOf(t)], t)
     IN IF n # Null
          THEN /\ results' = [results EXCEPT ![t] = Append(@, <<n, FALSE>>)]
               /\ tpc' = [tpc EXCEPT ![t] = "idle"]
          ELSE /\ results' = results
               /\ tpc' = [tpc EXCEPT ![t] = "new"]
  /\ UNCHANGED <<buckets, arrMem, arrHead, bptr, nodeValue, owner, bucketNext,
                 nodeMem, tnode, calls, initCalls, copies>>
  /\ UNCHANGED movedRest /\ UNCHANGED poolVars

\* line 112: ptr->next = head.load()
MovedLinkLoad(t) ==
  /\ tpc[t] = "new_load"
  /\ bucketNext' = [bucketNext EXCEPT ![tnode[t]] = arrHead[bptr[t]][BucketOf(t)]]
  /\ tpc' = [tpc EXCEPT ![t] = "new_cas"]
  /\ UNCHANGED <<buckets, arrMem, arrHead, bptr, nodeValue, owner, nodeMem,
                 tnode, calls, results, initCalls, copies>>
  /\ UNCHANGED movedRest /\ UNCHANGED poolVars

\* line 113-114: while(!head.compare_exchange_weak(ptr->next, ptr));
\* return {ptr->value, true}
MovedLinkCAS(t) ==
  /\ tpc[t] = "new_cas"
  /\ LET a == bptr[t]
         i == BucketOf(t)
         r == CompareExchangeWeak(arrHead[a][i], bucketNext[tnode[t]], tnode[t])
     IN /\ arrHead' = [arrHead EXCEPT ![a][i] = r.cell]
        /\ bucketNext' = [bucketNext EXCEPT ![tnode[t]] = r.expected]
        /\ IF r.ok
             THEN /\ results' = [results EXCEPT ![t] = Append(@, <<tnode[t], TRUE>>)]
                  /\ tnode' = [tnode EXCEPT ![t] = Null]
                  /\ tpc' = [tpc EXCEPT ![t] = "idle"]
             ELSE UNCHANGED <<results, tnode, tpc>>
  /\ UNCHANGED <<buckets, arrMem, bptr, nodeValue, owner, nodeMem, calls,
                 initCalls, copies>>
  /\ UNCHANGED movedRest /\ UNCHANGED poolVars

\* threads call local() on a container that is moved from at some moment
\* between their calls; new node(init) is CopyableNew, whose throw is also
\* that of an initializer the move has left empty
MovedNext ==
  \/ MovedFrom
  \/ \E t \in TlsThreads :
       \/ MovedLoad(t) \/ MovedNewArray(t) \/ MovedInstall(t) \/ MovedDelete(t)
       \/ MovedFind(t) \/ CopyableNew(t) \/ MovedLinkLoad(t) \/ MovedLinkCAS(t)

SpecTlsMoved == MovedInit /\ [][MovedNext]_vars

\* ------------------------------ tls, the movable variant: destruction

\* a destructor that runs delete[] buckets: the array it frees
DtorDeleteArray(a) == {a} \ {Null}

\* part_001 line 202, ~atomic_unordered_map() noexcept =default: buckets is
\* a std::atomic<atomic_forward_list *>, whose destruction frees nothing
DtorFrees(a) == {}

\* what is freed with the arrays F: the arrays, and by ~atomic_forward_list
\* (line 102, clear()) the nodes of their lists
FreeArrays(F) ==
  LET dead == {n \in TlsNodes :
                 \E a \in F : \E i \in Buckets : n \in Range(Walk(bucketNext, arrHead[a][i]))}
  IN /\ arrMem' = [a \in DOMAIN arrMem |-> IF a \in F THEN "deleted" ELSE arrMem[a]]
     /\ arrHead' = [a \in DOMAIN arrHead |->
                      IF a \in F THEN [i \in Buckets |-> Null] ELSE arrHead[a]]
     /\ nodeMem' = [n \in TlsNodes |-> IF n \in dead THEN "free" ELSE nodeMem[n]]

\* two containers, each with the bucket array its constructor allocated
DestroyInit == PoolInit({}) /\ TlsBase(TlsThreads, NotRigged, TRUE)
                            /\ MoreFresh(TlsThreads, CtorArray, OtherArray)

destroyRest == <<bucketHead, root, listNext, ctorMem, allocations, built, clears,
                 cleared, tlsTotal, copyHead, listHead, walk>>

\* line 258-261 and 197-200, tls2 = std::move(tls0): the parameter other is
\* move-constructed from tls0 (line 195), swap() exchanges its array with the
\* one of tls2, and other is destroyed with the array tls2 had
MoveAssignOther ==
  /\ TlsQuiescent /\ gone = {} /\ copies = 0 /\ buckets # Null
  /\ buckets2' = buckets
  /\ buckets' = Null
  /\ copies' = copies + 1
  /\ FreeArrays(DtorFrees(buckets2))
  /\ UNCHANGED <<bptr, gone, nodeValue, owner, bucketNext, tpc, tnode, calls,
                 results, initCalls>>
  /\ UNCHANGED destroyRest /\ UNCHANGED poolVars

\* line 263 and 202: ~tls of the first container, at the end of its scope
DestroyFirst ==
  /\ TlsQuiescent /\ 1 \notin gone
  /\ gone' = gone \cup {1}
  /\ FreeArrays(DtorFrees(buckets))
  /\ UNCHANGED <<buckets, buckets2, bptr, nodeValue, owner, bucketNext, tpc,
                 tnode, calls, results, initCalls, copies>>
  /\ UNCHANGED destroyRest /\ UNCHANGED poolVars

\* line 263 and 202: ~tls of the second container
DestroySecond ==
  /\ TlsQuiescent /\ 2 \notin gone
  /\ gone' = gone \cup {2}
  /\ FreeArrays(DtorFrees(buckets2))
  /\ UNCHANGED <<buckets, buckets2, bptr, nodeValue, owner, bucketNext, tpc,
                 tnode, calls, results, initCalls, copies>>
  /\ UNCHANGED destroyRest /\ UNCHANGED poolVars

\* threads fill the first container, which is move-assigned to the second
\* one at some moment, and both containers are destroyed in the end
DestroyNext ==
  \/ MoveAssignOther \/ DestroyFirst \/ DestroySecond
  \/ \E t \in TlsThreads :
       \/ (gone = {} /\ MovedLoad(t))
       \/ MovedNewArray(t) \/ MovedInstall(t) \/ MovedDelete(t)
       \/ MovedFind(t) \/ CopyableNew(t) \/ MovedLinkLoad(t) \/ MovedLinkCAS(t)

SpecTlsDestroy == DestroyInit /\ [][DestroyNext]_vars

\* -------------------------- tls, the single-list allocator-aware variant

listRest == <<bucketHead, root, listNext, ctorMem, allocations, built, clears,
              cleared, tlsTotal, copyHead, copies, buckets, arrMem, arrHead,
              bptr, buckets2, gone>>

\* an increment that follows the link: ptr = ptr->next
IncrementToNext(p) == bucketNext[p]

\* tls.hpp line 539, ++ptr on a node *: the address one node further on.
\* Nodes are numbered by their addresses, in units of sizeof(node)
Increment(p) == p + 1

\* line 625-628: the lookup of local() along head and next
ListFind(t) ==
  /\ TlsIdle(t) /\ calls[t] < MaxCalls
  /\ calls' = [calls EXCEPT ![t] = @ + 1]
  /\ LET n == Find(listHead, t)
     IN IF n # Null
          THEN /\ results' = [results EXCEPT ![t] = Append(@, <<n, FALSE>>)]
               /\ tpc' = [tpc EXCEPT ![t] = "idle"]
          ELSE /\ results' = results
               /\ tpc' = [tpc EXCEPT ![t] = "new"]
  /\ UNCHANGED <<listHead, walk, nodeValue, owner, bucketNext, nodeMem, tnode,
                 initCalls>>
  /\ UNCHANGED listRest /\ UNCHANGED poolVars

\* line 631: ptr->next = head.load()
ListLoad(t) ==
  /\ tpc[t] = "new_load"
  /\ bucketNext' = [bucketNext EXCEPT ![tnode[t]] = listHead]
  /\ tpc' = [tpc EXCEPT ![t] = "new_cas"]
  /\ UNCHANGED <<listHead, walk, nodeValue, owner, nodeMem, tnode, calls,
                 results, initCalls>>
  /\ UNCHANGED listRest /\ UNCHANGED poolVars

\* line 632-633: while(!head.compare_exchange_weak(ptr->next, ptr));
\* return {ptr->value, true}
ListCAS(t) ==
  /\ tpc[t] = "new_cas"
  /\ LET r == CompareExchangeWeak(listHead, bucketNext[tnode[t]], tnode[t])
     IN /\ listHead' = r.cell
        /\ bucketNext' = [bucketNext EXCEPT ![tnode[t]] = r.expected]
        /\ IF r.ok
             THEN /\ results' = [results EXCEPT ![t] = Append(@, <<tnode[t], TRUE>>)]
                  /\ tnode' = [tnode EXCEPT ![t] = Null]
                  /\ tpc' = [tpc EXCEPT ![t] = "idle"]
             ELSE UNCHANGED <<results, tnode, tpc>>
  /\ UNCHANGED <<walk, nodeValue, owner, nodeMem, calls, initCalls>>
  /\ UNCHANGED listRest /\ UNCHANGED poolVars

iterRest == <<listHead, nodeValue, owner, bucketNext, nodeMem, tpc, tnode,
              calls, results, initCalls>>

\* line 655-656: for(auto it{tls.begin()}; ...), begin() is head.load();
\* made while no thread is inside local()
ListBegin ==
  /\ TlsQuiescent /\ walk.state = "none"
  /\ walk' = [ptr |-> listHead, seen |-> <<>>, state |-> "walking"]
  /\ UNCHANGED iterRest /\ UNCHANGED listRest /\ UNCHANGED poolVars

\* line 555, 657-658: it == tls.end(), the null iterator, ends the loop
ListEnd ==
  /\ walk.state = "walking" /\ walk.ptr = Null
  /\ walk' = [walk EXCEPT !.state = "ended"]
  /\ UNCHANGED iterRest /\ UNCHANGED listRest /\ UNCHANGED poolVars

\* line 548-551 and 537-541: the loop body reads *it and the loop does ++it.
\* Where ptr is the address of a node the body reads that node. Where it is
\* not, assert(ptr) still passes and ptr->value is undefined behaviour: the
\* program dies, or it reads what is there and goes on; beyond the last
\* address of the heap it dies
ListVisit ==
  /\ walk.state = "walking" /\ walk.ptr # Null
  /\ IF walk.ptr \in TlsNodes /\ nodeMem[walk.ptr] = "live"
       THEN walk' = [ptr |-> Increment(walk.ptr),
                     seen |-> Append(walk.seen, walk.ptr), state |-> "walking"]
       ELSE \/ walk' = [walk EXCEPT !.state = "crashed"]
            \/ /\ walk.ptr \in TlsNodes
               /\ walk' = [ptr |-> Increment(walk.ptr),
                           seen |-> Append(walk.seen, walk.ptr), state |-> "walking"]
  /\ UNCHANGED iterRest /\ UNCHANGED listRest /\ UNCHANGED poolVars

\* threads fill the container through local(), and when they are done one of
\* them iterates it from begin() to end()
ListNext ==
  \/ \E t \in TlsThreads :
       \/ (walk.state = "none" /\ ListFind(t))
       \/ CopyableNew(t) \/ ListLoad(t) \/ ListCAS(t)
  \/ ListBegin \/ ListVisit \/ ListEnd

SpecTlsList == TlsInit /\ [][ListNext]_vars

\* ------------------------------------------------------------ fair threads

\* a step inside a call that has begun: the thread's next instruction
Continue(t) ==
  \/ LeaseStep(t) \/ ReleaseStep(t)
  \/ LeaseAllCAS(t) \/ SnapshotLoad(t) \/ SnapshotLink(t) \/ SnapshotCAS(t)

\* threads that begin finitely many calls - a thread whose lease() threw
\* begins no further one, and every other call ends in a tag - and whose
\* begun calls are scheduled again and again
LiveNext ==
  \E t \in Threads :
    \/ (pc[t] = "idle" /\ LeaseLoad(t))
    \/ \E n \in Nodes : (pc[t] = "idle" /\ ReleaseLoad(t, n))
    \/ (pc[t] = "idle" /\ LeaseAllLoad(t))
    \/ (pc[t] = "idle" /\ SnapshotWalk(t))
    \/ Continue(t)

SpecLive == Init /\ [][LiveNext]_vars /\ \A t \in Threads : WF_vars(Continue(t))

\* ============================================================ properties

Thr == DOMAIN pc

\* the chain from h up to and including the node last
RECURSIVE ChainUpTo(_, _, _, _)
ChainUpTo(nx, h, last, fuel) ==
  IF h \notin Nodes \/ fuel = 0 THEN <<>>
  ELSE IF h = last THEN <<h>>
  ELSE <<h>> \o ChainUpTo(nx, nx[h], last, fuel - 1)

StackSeq == Chain(top.head)

\* the nodes a live snapshot owns: its chain, which ends at tail once
\* ~snapshot has linked the tail to the stack
SnapSeq(t) == ChainUpTo(next, snap[t], tail[t], Cardinality(Nodes) + 1)
SnapNodes(t) == Range(SnapSeq(t))

Publishing(t) == pc[t] \in {"publish_link", "publish_cas"}
PrivateNodes(t) ==
  IF Publishing(t) THEN {n \in Nodes : BlockOf(n) = blk[t]} ELSE {}

LiveNodes == {n \in Nodes : BlockOf(n) \in Range(BlockList)}
Occurrences(s, n) == Cardinality({i \in 1..Len(s) : s[i] = n})
Holders(n) == {t \in Thr : n \in held[t]}
Snappers(n) == {t \in Thr : n \in SnapNodes(t)}

NoTwoOwners ==
  \A n \in Nodes : Cardinality(Holders(n)) + Cardinality(Snappers(n)) <= 1

\* this step hands node n to a new handle of thread t
Granted(t, n) ==
  \/ pc[t] = "pop_cas" /\ pc'[t] = "idle" /\ n = old[t].head
  \/ pc[t] = "publish_cas" /\ pc'[t] = "unlock_ret" /\ n = KeptNode(blk[t])

GrantOnlyFree ==
  \A t \in Thr : \A n \in Nodes :
    Granted(t, n) => Holders(n) = {} /\ Snappers(n) = {}

\* C1: leases are exclusive. No node is owned by two live owners (handles or
\* snapshots) at once, and lease() hands out a node only in a state where no
\* handle and no snapshot owns it, that is after the release CAS of its
\* previous holder has succeeded.
C1_LeasesExclusive == []NoTwoOwners /\ [][GrantOnlyFree]_vars

\* a handle of one thread and a snapshot of another are live after releases
C1_Witness ==
  \E t, u \in Thr : t # u /\ held[t] # {} /\ snap[u] \in Nodes /\ top.tag >= 4

Places(n) ==
  Occurrences(StackSeq, n) + Cardinality(Holders(n))
    + Cardinality({t \in Thr : n \in PrivateNodes(t)})
    + Cardinality({<<t, i>> \in Thr \X (1..(Cardinality(Nodes) + 1)) :
                     i <= Len(SnapSeq(t)) /\ SnapSeq(t)[i] = n})

\* C2: no node is lost or duplicated. Every node of a registered block is in
\* exactly one place (once on the stack, in one handle, in one snapshot chain,
\* or private to the thread publishing its block), no other node is anywhere,
\* and the chain from the stack top is acyclic and ends in nullptr.
C2_NodesConserved ==
  life = "alive" =>
    /\ \A n \in LiveNodes : Places(n) = 1
    /\ \A n \in Nodes \ LiveNodes : Places(n) = 0
    /\ Len(StackSeq) <= Cardinality(Nodes)
    /\ EndOf(next, top.head, Cardinality(Nodes) + 1) = Null

\* a block is being published while a snapshot is live and the stack is not empty
C2_Witness ==
  \E t, u \in Thr : Publishing(t) /\ snap[u] \in Nodes /\ top.head # Null

OthersDone(t) ==
  \A u \in Thr \ {t} : Idle(u) /\ held[u] = {} /\ snap[u] = NoSnap

\* thread t has just taken a snapshot and every worker had finished before
AfterReduction(t) ==
  /\ solo.thr = t /\ solo.kind = "drain"
  /\ Idle(t) /\ held[t] = {} /\ snap[t] # NoSnap
  /\ OthersDone(t)

\* C3: parallel reduction is exact. Once every worker has finished its
\* lease / add / release cycles, the values of the snapshot returned by
\* lease_all() add up to the sum of all inputs (never-leased nodes count 0).
C3_ReductionExact ==
  \A t \in Thr : AfterReduction(t) => Accumulate(snap[t]) = total

\* a snapshot after the reduction in which two nodes carry inputs
C3_Witness ==
  \E t \in Thr :
    /\ AfterReduction(t)
    /\ Cardinality({n \in Range(Chain(snap[t])) : value[n] > 0}) >= 2

\* C4: with every handle and snapshot released and no operation in
\* progress, size() is the number of nodes of all allocated blocks.
C4_SizeIsCapacity ==
  (life = "alive" /\ Quiescent) => size = Len(BlockList) * NodesPerBlock

\* two blocks were allocated, leases taken and released, all is quiet again
C4_Witness ==
  life = "alive" /\ Quiescent /\ Len(BlockList) = 2 /\ top.tag >= 4

\* the CAS of lease_all() by thread t succeeds in this step
DrainStep(t) == pc[t] = "all_cas" /\ snap'[t] \in Nodes

DrainTakesStack ==
  \A t \in Thr :
    DrainStep(t) =>
      /\ top'.head = Null
      /\ ChainFrom(next', snap'[t], Cardinality(Nodes) + 1) = StackSeq
      /\ \A n \in Range(StackSeq) : Holders(n) = {}

\* this step completes the push of thread t by one of the pcs in from
Pushes(from) == \E t \in Thr : pc[t] \in from /\ pc'[t] # pc[t]

EmptyUntilRelease ==
  (drained /\ top'.head # Null) => Pushes({"rel_cas", "snap_cas"})

EmptyUntilPush ==
  (drained /\ top'.head # Null) => Pushes({"rel_cas", "snap_cas", "publish_cas"})

\* C5 as stated: lease_all() takes exactly the stack at its CAS, in order,
\* none of it held by a handle, and the stack then stays empty until a
\* handle or a snapshot is released.
C5_EmptyUntilRelease == [][DrainTakesStack /\ EmptyUntilRelease]_vars

\* C5 amended: lease_all() takes exactly the stack at its CAS, in order, none
\* of it held by a handle, and the stack then stays empty until a handle or a
\* snapshot is released or a lease() publishes a newly allocated block.
C5_DrainTakesStack == [][DrainTakesStack /\ EmptyUntilPush]_vars

\* the stack was drained into a snapshot while another thread holds a handle
C5_Witness ==
  \E t, u \in Thr : t # u /\ drained /\ snap[t] \in Nodes /\ held[u] # {}

SameMultiset(a, b) ==
  /\ Len(a) = Len(b)
  /\ \A x \in Range(a) \cup Range(b) : Occurrences(a, x) = Occurrences(b, x)

\* the snapshot of an undisturbed lease_all() is spliced back in this step
RoundTrip ==
  \A t \in Thr :
    (pc[t] = "snap_cas" /\ pc'[t] = "idle" /\ solo.thr = t /\ solo.kind = "drain")
      => SameMultiset(ValuedFrom(next', value', top'.head), solo.data)

\* the next lease_all() of the same thread, still undisturbed, returns
SecondDrain ==
  \A t \in Thr :
    (solo.thr = t /\ solo.kind = "restored" /\ snap[t] = NoSnap /\ snap'[t] # NoSnap)
      => SameMultiset(ValuedFrom(next', value', snap'[t]), solo.data)

\* C6: drain round trip. When a snapshot is destroyed with no other pool
\* operation since its lease_all(), the stack holds the same multiset of
\* nodes and values as before the lease_all(), and a second lease_all()
\* yields that multiset again.
C6_DrainRoundTrip == [][RoundTrip /\ SecondDrain]_vars

\* a second undisturbed lease_all() returned two nodes, one with an input
C6_Witness ==
  /\ solo.kind = "again" /\ Len(solo.data) >= 2
  /\ \E i \in 1..Len(solo.data) : solo.data[i][2] > 0

SoloRel(t) == solo.thr = t /\ solo.kind = "rel"

ReuseOnFastPath ==
  \A t \in Thr :
    SoloRel(t) =>
      /\ pc[t] \in {"idle", "threw", "pop_read", "pop_cas"}
      /\ pc[t] \in {"pop_read", "pop_cas"} => old[t].head = solo.data[1]

ReuseSameNode ==
  \A t \in Thr :
    (SoloRel(t) /\ pc[t] = "pop_cas" /\ pc'[t] # "pop_cas") =>
      /\ pc'[t] = "idle"
      /\ held'[t] = held[t] \cup {solo.data[1]}
      /\ blocks' = blocks /\ allocd' = allocd

\* C7: LIFO reuse. A lease() that follows the thread's own handle release,
\* with no step of another thread in between, stays on the fast path (it
\* never takes the gate or allocates) and returns the node just released.
C7_LifoReuse == []ReuseOnFastPath /\ [][ReuseSameNode]_vars

\* a thread got back the node it had just released, with two blocks around
C7_Witness ==
  /\ solo.kind = "reused" /\ solo.data[1] \in held[solo.thr]
  /\ Len(BlockList) = 2

\* the threads that have called lease()
Called == {t \in Thr : pc[t] # "idle" \/ held[t] # {}}

\* every thread's lease() has returned a handle
AllHold == \A t \in Thr : pc[t] = "idle" /\ held[t] # {}

CeilDiv(a, b) == (a + b - 1) \div b

GatePcs == {"recheck", "alloc", "construct", "publish_link", "publish_cas",
            "unlock_retry", "unlock_throw", "unlock_ret"}

PoolUntouched ==
  /\ top' = top /\ next' = next /\ value' = value
  /\ blocks' = blocks /\ blockNext' = blockNext

FailureLeavesPool ==
  \A t \in Thr :
    /\ (pc[t] \in {"alloc", "construct"} /\ pc'[t] = "unlock_throw") =>
         PoolUntouched /\ blk'[t] = Null /\ allocd' = Range(BlockList)
    /\ (pc[t] = "unlock_throw" /\ pc'[t] = "threw") =>
         PoolUntouched /\ lock' = 1
    /\ (pc[t] \in {"gate", "recheck", "alloc"} /\ pc'[t] # pc[t]) => PoolUntouched

ThrewHoldsNothing ==
  \A t \in Thr :
    pc[t] = "threw" =>
      /\ blk[t] = Null
      /\ lock = 1 \/ \E u \in Thr \ {t} : pc[u] \in GatePcs

\* C9: a failing allocation or construction on the slow path of lease()
\* propagates and leaves the pool untouched: the stack top, the node links
\* and values and the block list are as before, the raw block is given back,
\* and the gate is released, so that a later lease() can take it.
C9_FailureLeavesPool == []ThrewHoldsNothing /\ [][FailureLeavesPool]_vars

\* a lease() has thrown on a pool that has a block, while another thread
\* holds a handle
C9_Witness ==
  \E t, u \in Thr :
    t # u /\ pc[t] = "threw" /\ Len(BlockList) >= 1 /\ held[u] # {}

BlocksStay ==
  /\ life = "alive" => freed = <<>> /\ Range(BlockList) \subseteq allocd
  /\ life = "destroyed" =>
       /\ freed = BlockList
       /\ \A i \in 1..Len(freed) : freed[i] = Len(freed) - i + 1
       /\ allocd = {}

BlocksOnlyGrow ==
  (life = "alive" /\ life' = "alive") =>
    LET after == BlockChain(blockNext', blocks', MaxBlocks + 1)
    IN after = BlockList \/ (Len(after) = Len(BlockList) + 1 /\ Tail(after) = BlockList)

\* C10: no block is freed while the pool is alive (the block list only grows
\* at its head), and destroying the pool destroys and deallocates every block
\* exactly once, the most recently allocated first, leaving none allocated.
C10_BlocksFreedOnce == []BlocksStay /\ [][BlocksOnlyGrow]_vars

\* a pool with two blocks has been destroyed
C10_Witness == life = "destroyed" /\ Len(freed) = 2

\* ------------------------------------------------------- tls properties

TlsThr == DOMAIN tpc

\* the entries thread t was handed by its local() calls since the last clear()
Handed(t) == {results[t][i][1] : i \in 1..Len(results[t])}

\* every call of a thread returns the same entry, and the entry is the caller's
SameEntry ==
  \A t \in TlsThr : Cardinality(Handed(t)) <= 1 /\ \A n \in Handed(t) : owner[n] = t

\* no entry is handed to two threads
NeverShared ==
  \A t, u \in TlsThr : t # u => Handed(t) \cap Handed(u) = {}

\* the flag is true for the first call that returned and false afterwards
FirstTouch ==
  \A t \in TlsThr : \A i \in 1..Len(results[t]) : results[t][i][2] = (i = 1)

\* C11: TLS identity. Between two clear() calls every local() of a thread
\* returns the same entry, whose owner is that thread, no entry is returned
\* to two threads, and created is true for exactly the first returning call.
C11_TlsIdentity == SameEntry /\ NeverShared /\ FirstTouch

\* two threads of the same bucket have both called local() twice
C11_Witness ==
  \E t, u \in TlsThr :
    /\ t # u /\ BucketOf(t) = BucketOf(u)
    /\ Len(results[t]) = 2 /\ Len(results[u]) = 2

\* the threads that own an entry
Participants == {t \in TlsThr : results[t] # <<>>}

RECURSIVE TlsSum(_)
TlsSum(s) == IF s = <<>> THEN 0 ELSE nodeValue[Head(s)] + TlsSum(Tail(s))

\* begin()..end() visits one entry per participating thread
OnePerThread ==
  /\ Len(Entries) = Cardinality(Participants)
  /\ {owner[Entries[i]] : i \in 1..Len(Entries)} = Participants
  /\ \A t \in Participants : \E i \in 1..Len(Entries) : Entries[i] = Mine(t)

\* C12: once all local() calls have completed, the iteration from begin() to
\* end() visits exactly one entry per participating thread, none lost and
\* none twice, and the fold of the entries is the sum of all inputs.
C12_IterationComplete ==
  TlsQuiescent => OnePerThread /\ TlsSum(Entries) = tlsTotal

\* all threads, two of them of one bucket, own an entry and inputs were added
C12_Witness ==
  /\ TlsQuiescent /\ Participants = TlsThr /\ tlsTotal = MaxSum
  /\ \E t, u \in TlsThr : t # u /\ BucketOf(t) = BucketOf(u)

\* a clear() step leaves the container empty
ClearEmpties ==
  clears' # clears =>
    /\ root' = Null
    /\ \A i \in Buckets : bucketHead'[i] = Null
    /\ \A t \in TlsThr : results'[t] = <<>>

\* C13: first-touch flag and clear. The first local() of a thread returns
\* created = true and later calls false; clear() leaves the container empty
\* (begin() = end(), every bucket empty), after which the thread's next
\* local() returns true again and the calls after that false.
C13_FirstTouchAndClear == []FirstTouch /\ [][ClearEmpties]_vars

\* a thread whose entry clear() destroyed has since called local() twice
C13_Witness ==
  \E t \in cleared : clears = 1 /\ Len(results[t]) = 2

\* local() of thread t returns a new entry in this step
Creates(t) ==
  Len(results'[t]) = Len(results[t]) + 1 /\ results'[t][Len(results'[t])][2]

\* the entry a thread is handed as new holds the seed
NewHoldsSeed ==
  \A t \in TlsThr : Creates(t) => nodeValue'[Mine(t)'] = Seed

\* the initializer runs once for each node constructed and at no other time
InitOncePerNode ==
  /\ \A n \in TlsNodes :
       nodeMem[n] = "raw" /\ nodeMem'[n] = "live" => initCalls' = initCalls + 1
  /\ initCalls' # initCalls =>
       /\ initCalls' = initCalls + 1
       /\ \E t \in TlsThr : tpc[t] = "construct" /\ tpc'[t] # "construct"

\* C14: a new entry holds the result of one invocation of the initializer, a
\* copy of the seed, whatever other threads have done to their entries.
C14_InitialValue == [][NewHoldsSeed /\ InitOncePerNode]_vars

\* a thread is handed a new entry while the newest entry of the list holds
\* a sum that differs from the seed
C14_Witness ==
  \E t \in TlsThr :
    /\ tpc[t] = "idle" /\ Len(results[t]) = 1 /\ results[t][1][2]
    /\ nodeValue[Mine(t)] = Seed
    /\ \E u \in TlsThr \ {t} : results[u] # <<>> /\ nodeValue[Mine(u)] # Seed

\* the step in which local() of thread t throws
Throws(t) == tpc[t] # "threw" /\ tpc'[t] = "threw"

\* a throwing local() frees its node and links nothing
ThrowRestores ==
  \A t \in TlsThr : Throws(t) =>
    /\ bucketHead' = bucketHead /\ root' = root
    /\ bucketNext' = bucketNext /\ listNext' = listNext
    /\ results' = results
    /\ tnode[t] # Null => nodeMem'[tnode[t]] = "free"
    /\ tnode'[t] = Null

\* the nodes a running local() has allocated and not linked yet
InFlight == {tnode[t] : t \in {u \in TlsThr : tnode[u] # Null}}

\* every allocated node is in a bucket list or in the hands of a running call
NothingStray ==
  \A n \in TlsNodes : nodeMem[n] # "free" => n \in Listed \cup InFlight

\* a call after a throw looks up again and, with no entry, allocates
RetryCreates ==
  \A t \in TlsThr :
    tpc[t] = "threw" /\ tpc'[t] # "threw" =>
      tpc'[t] = IF Find(bucketHead[BucketOf(t)], t) = Null THEN "allocate" ELSE "idle"

\* C15: when the allocator or the initializer throws in local(), the node
\* allocated so far is freed, no bucket head, link or root changes, and the
\* thread's next local() creates its entry and returns created = true.
C15_ThrowRestores ==
  [](NothingStray /\ FirstTouch) /\ [][ThrowRestores /\ RetryCreates]_vars

\* a thread whose first local() threw was handed a new entry by its second
C15_Witness ==
  \E t \in TlsThr :
    clears = 0 /\ calls[t] = 2 /\ tpc[t] = "idle" /\ Len(results[t]) = 1

Threw == {t \in TlsThr : tpc[t] = "threw"}

AllCalled == TlsQuiescent /\ \A t \in TlsThr : calls[t] = 1

NoLeak == \A n \in TlsNodes : nodeMem[n] = "free"

\* C16 as stated: two local() calls succeed before the one that throws
C16_ThirdCallThrows ==
  Threw # {} => Cardinality(Participants) = 2

\* C16, amended: construction takes the allocator's first two allocations, so
\* the failing third one is the first node allocation: exactly one local()
\* throws, no local() gets a node before it, the other two calls succeed,
\* the iteration yields two entries and destruction frees everything.
C16_FirstNodeAllocationThrows ==
  /\ built \in {"no", "storage"} => allocations < FailAt - 1 /\ Threw = {}
  /\ InFlight # {} \/ Participants # {} => Cardinality(Threw) = 1
  /\ Cardinality(Threw) <= 1
  /\ AllCalled /\ built = "yes" =>
       Cardinality(Threw) = 1 /\ Len(Entries) = 2 /\ OnePerThread
  /\ built = "destroyed" => NoLeak /\ ctorMem = {} /\ root = Null

\* all three threads have called, one threw, and the container is destroyed
C16_Witness ==
  built = "destroyed" /\ Cardinality(Threw) = 1 /\ Cardinality(Participants) = 2


\* ---------------------------------------------------------------- race_free

\* the slots the iteration goes through, in order
IteratedSlots == [k \in 1..Len(Iterate) |-> SlotOf(Iterate[k])]

\* C17: with no live handles, iterating from begin() to end() visits exactly
\* the slots that hold a value, each once, never an empty slot, and
\* begin() == end() whenever no slot holds a value
C17_IteratesOccupied ==
  NoHandles =>
    /\ \A k \in 1..Len(Iterate) : ~AtEmpty(Iterate[k])
    /\ Range(IteratedSlots) = Occupied
    /\ Len(Iterate) = Cardinality(Occupied)
    /\ (Occupied = {} => IterBegin = IterEnd)


\* once the workers are done, every iterated slot has a value and the
\* iteration sums to the sum of all inputs
ReductionSum ==
  NoHandles =>
    /\ \A k \in 1..Len(Iterate) : ~AtEmpty(Iterate[k])
    /\ SumSeq(IteratedSlots) = total

\* a slot's value changes only when the block is constructed or when the
\* thread holding its handle does its work, which adds to a present value
SlotSurvives ==
  \A n \in Nodes :
    value'[n] # value[n] =>
      \/ BlockOf(n) \notin Range(BlockList)
      \/ \E t \in Workers :
           /\ n \in held[t] /\ acc[t] = NoAcc /\ acc'[t].node = n
           /\ value'[n] = (IF value[n] = Nullopt THEN 0 ELSE value[n]) + acc'[t].inp

\* C18: in the reduction a slot's presence and value survive release and
\* re-lease, so the final iteration sums to the sum of all inputs and every
\* iterated slot has a value
C18_ReductionSum == []ReductionSum /\ [][SlotSurvives]_vars

\* the workers are done and one slot was filled by one worker, released, and
\* added to by a later holder
C18_Witness ==
  /\ NoHandles
  /\ Iterate # <<>>
  /\ \E n \in Occupied : value[n] > MaxInput


\* the step is a call of race_free::reset()
ResetStep == solo' # solo /\ solo'.kind = "reset"

\* after reset() no slot of any block holds a value
ResetEmpties == \A n \in ListedNodes : value'[n] = Nullopt

\* reset() keeps the stack (top, links, order) and the block list
ResetKeeps ==
  /\ top' = top /\ next' = next
  /\ Chain(top.head)' = Chain(top.head)
  /\ blocks' = blocks /\ blockNext' = blockNext
  /\ BlockList' = BlockList
  /\ allocd' = allocd /\ lock' = lock

\* C19: reset(), called with no live handles, leaves every slot of every
\* block empty and changes nothing else: same stack, same top, same block
\* list, no memory released
C19_ResetFrame == [][ResetStep => ResetEmpties /\ ResetKeeps]_vars

\* reset() has just emptied slots of both blocks
C19_Witness ==
  /\ solo.kind = "reset"
  /\ Len(BlockList) = 2
  /\ solo.data[1] > NodesPerBlock
  /\ Occupied = {}
  /\ top.head # Null


\* ------------------------------------------------------- tls, copyable variant

\* what iterating the container with bucket heads heads yields: every entry's
\* value and owning thread, in order
Yields(heads) ==
  LET l == MapIterate(heads)
  IN [k \in 1..Len(l) |-> <<nodeValue[l[k]], owner[l[k]]>>]

\* the step is a copy construction or a copy assignment that returned
CopyStep == copies' = copies + 1

\* after the copy, iterating it yields what iterating the source yields
CopyYieldsSame == Yields(copyHead)' = Yields(bucketHead)'

\* the copy leaves the source's buckets, entries, links and values alone
SourceUnchanged ==
  /\ bucketHead' = bucketHead
  /\ MapIterate(bucketHead)' = MapIterate(bucketHead)
  /\ Yields(bucketHead)' = Yields(bucketHead)
  /\ \A n \in Range(MapIterate(bucketHead)) :
       bucketNext'[n] = bucketNext[n] /\ nodeMem'[n] = nodeMem[n]

\* C20: copying a tls container (copy construction or copy assignment) yields
\* a container whose iteration produces the same values as the source, entry
\* for entry and with the same owning thread, and leaves the source unchanged
C20_CopyEqualsSource == [][CopyStep => CopyYieldsSame /\ SourceUnchanged]_vars

\* a copy of two entries of one bucket that hold different assigned values,
\* made of nodes of its own
C20_Witness ==
  /\ copies >= 1
  /\ \E i \in Buckets :
       /\ copyHead[i] # Null /\ bucketNext[copyHead[i]] # Null
       /\ nodeValue[copyHead[i]] # Seed
       /\ nodeValue[bucketNext[copyHead[i]]] # Seed
       /\ nodeValue[copyHead[i]] # nodeValue[bucketNext[copyHead[i]]]
  /\ Yields(copyHead) = Yields(bucketHead)
  /\ Range(MapIterate(copyHead)) \cap Range(MapIterate(bucketHead)) = {}


\* --------------------------------------------------------- tls, movable variant

\* the step is a move construction or a move assignment
MoveStep == copies' = copies + 1

\* the destination iterates exactly the entries the source had, the source
\* iterates none
MoveTransfers ==
  IF copies % 2 = 0
    THEN /\ TlsIterate(copyHead)' = TlsIterate(bucketHead)
         /\ TlsIterate(bucketHead)' = <<>>
    ELSE /\ TlsIterate(bucketHead)' = TlsIterate(copyHead)
         /\ TlsIterate(copyHead)' = <<>>

\* a move touches no entry
MoveKeepsEntries ==
  /\ nodeValue' = nodeValue /\ owner' = owner
  /\ bucketNext' = bucketNext /\ nodeMem' = nodeMem

\* C21: move-constructing or move-assigning a tls container transfers all
\* entries to the destination, which then iterates exactly the entries the
\* source had, and the moved-from container iterates zero entries
C21_MoveTransfers == [][MoveStep => MoveTransfers /\ MoveKeepsEntries]_vars

\* after a move out and a move back the first container iterates its three
\* entries again and the second one is moved-from
C21_Witness ==
  /\ copies = 2
  /\ copyHead = NoBuckets
  /\ Len(TlsIterate(bucketHead)) = NumTlsThreads
  /\ TlsIterate(copyHead) = <<>>


\* ------------------------------------------------------------- the stack top

\* thread t is at the pop CAS of lease() or get()
AtPopCAS(t) == pc[t] \in {"pop_cas", "get_cas"}

\* the step is a successful pop CAS of thread t
PopSucceeds(t) == AtPopCAS(t) /\ pc'[t] = "idle"

\* a pop CAS that would succeed carries the successor the top node has now
PopReadIsCurrent ==
  \A t \in DOMAIN pc :
    AtPopCAS(t) /\ old[t] = top => nxt[t] = next[top.head]

\* a successful pop CAS takes the top node and installs its successor
PopInstallsSuccessor ==
  \A t \in DOMAIN pc :
    PopSucceeds(t) =>
      /\ old[t].head = top.head
      /\ top'.head = next[top.head]
      /\ Chain(top.head)' = Tail(Chain(top.head))

\* C22: whenever the pop CAS of lease() / get() succeeds, the next pointer it
\* installs is the popped node's successor on the stack at that instant,
\* although next was read in an earlier step (tags do not wrap here)
C22_PopInstallsSuccessor == []PopReadIsCurrent /\ [][PopInstallsSuccessor]_vars

\* a thread is at its pop CAS after the node it read was popped and pushed
\* again: the head is the one it read, the successor it read is stale
C22_Witness ==
  \E t \in DOMAIN pc :
    /\ AtPopCAS(t)
    /\ old[t].head = top.head /\ old[t].tag # top.tag
    /\ nxt[t] # next[top.head]


\* thread t is at a compare-exchange on the stack top
AtCAS(t) == pc[t] \in {"pop_cas", "publish_cas", "rel_cas", "all_cas", "snap_cas"}

\* the top never changes but to a tag one above the replaced tag
TagStepsByOne == top' # top => top'.tag = top.tag + 1

\* a compare-exchange that finds the value it expects installs the next tag
SuccessBumpsTag ==
  \A t \in DOMAIN pc :
    AtCAS(t) /\ pc'[t] # pc[t] /\ old[t] = top => top'.tag = top.tag + 1

\* C23: every successful compare-exchange on the stack top - lease, handle
\* release, block publish, lease_all, snapshot release - installs the replaced
\* tag plus exactly one, so the head never changes without the tag changing
C23_TagMonotonic == [][TagStepsByOne /\ SuccessBumpsTag]_vars

\* a snapshot was taken and given back, and the tag counts MaxTag successful
\* compare-exchanges
C23_Witness == solo.kind = "restored" /\ top.tag = MaxTag /\ top.head # Null


\* ------------------------------------------------------- the admission gate

\* thread t is between lock.acquire() and lock.release() of lease()
InSlowPath(t) ==
  pc[t] \in {"recheck", "unlock_retry", "alloc", "construct", "publish_link",
             "publish_cas", "unlock_throw", "unlock_ret"}

\* thread t is allocating, registering or publishing a block
Allocating(t) == pc[t] \in {"alloc", "construct", "publish_link", "publish_cas"}

SlowThreads == {t \in DOMAIN pc : InSlowPath(t)}

\* at most one thread is past the gate, it holds the permit, and it allocates
\* only after it read an empty top under the gate
OneAllocator ==
  /\ Cardinality(SlowThreads) <= 1
  /\ SlowThreads # {} => lock = 0
  /\ \A t \in DOMAIN pc : pc[t] \in {"alloc", "construct"} => old[t].head = Null

\* while the pool lives, the block list and the set of allocated blocks are
\* written only by the step of a thread that holds the gate
ListWrittenUnderGate ==
  life' = "alive" /\ (blocks' # blocks \/ blockNext' # blockNext \/ allocd' # allocd) =>
    \E t \in DOMAIN pc :
      /\ pc[t] \in {"alloc", "construct"} /\ pc'[t] # pc[t]
      /\ lock = 0 /\ SlowThreads = {t}

\* C24: block allocation, registration and the bulk publish are performed
\* only by a thread that holds the admission gate and read an empty top while
\* holding it; at most one thread allocates at a time and the block list is
\* never written without the gate
C24_AllocationUnderGate == []OneAllocator /\ [][ListWrittenUnderGate]_vars

\* one thread publishes its block while another waits at the gate
C24_Witness ==
  \E t, u \in DOMAIN pc :
    /\ t # u
    /\ pc[t] = "publish_cas" /\ lock = 0
    /\ pc[u] = "gate"


\* thread t holds the permit: it is between the acquire and the release of
\* lease() or of get()
HoldsGate(t) ==
  \/ InSlowPath(t)
  \/ pc[t] \in {"get_recheck", "get_unlock_retry", "get_alloc", "get_construct",
                "get_publish_link", "get_publish_cas", "get_unlock_throw",
                "get_unlock_ret"}

GateHolders == {t \in DOMAIN pc : HoldsGate(t)}

\* the permit count is 0 or 1, it is 0 exactly while one thread holds the
\* gate, and a thread outside lease() / get() does not hold it
PermitMatchesHolder ==
  /\ lock \in {0, 1}
  /\ Cardinality(GateHolders) <= 1
  /\ lock = 1 <=> GateHolders = {}
  /\ \A t \in DOMAIN pc : Idle(t) => ~HoldsGate(t)

\* the step of a thread that stops holding the gate - by the return, by the
\* throw, or by the jump back to the pop - is one release of a taken permit,
\* and nothing else releases; an acquire takes a free permit
AcquireReleasePaired ==
  /\ \A t \in DOMAIN pc : HoldsGate(t) /\ ~HoldsGate(t)' => lock = 0 /\ lock' = 1
  /\ \A t \in DOMAIN pc : ~HoldsGate(t) /\ HoldsGate(t)' => lock = 1 /\ lock' = 0
  /\ lock' # lock => \E t \in DOMAIN pc : HoldsGate(t)' # HoldsGate(t)

\* C25: every acquisition of the admission gate by lease() / get() is matched
\* by exactly one release before the call returns or throws, also on the jump
\* back to the pop and when allocation fails; the permit count is 0 or 1 and
\* the gate is free whenever no thread is in the slow path
C25_GatePaired == []PermitMatchesHolder /\ [][AcquireReleasePaired]_vars

\* a lease() whose allocation failed has released the gate and another
\* thread is inside the slow path
C25_Witness ==
  \E t, u \in DOMAIN pc :
    /\ pc[t] = "threw" /\ HoldsGate(u) /\ lock = 0


\* -------------------------------------------------------- the empty snapshot

\* thread t owns the snapshot lease_all() returned for an empty stack
OwnsEmptySnapshot(t) == snap[t] = Null

\* destroying it gives the snapshot up and leaves the stack as it was
EmptySnapshotDropped ==
  \A t \in DOMAIN pc :
    OwnsEmptySnapshot(t) /\ snap'[t] # snap[t] =>
      snap'[t] = NoSnap /\ top' = top /\ next' = next

\* C26: lease_all() on a pool with no available objects returns an empty
\* snapshot, and destroying that snapshot leaves the stack unchanged and never
\* follows the next link of a null node
C26_EmptySnapshotHarmless ==
  /\ [](life # "crashed")
  /\ [][EmptySnapshotDropped]_vars


\* ------------------------------------------------------ ~snapshot, the splice

\* the step is the successful CAS of ~snapshot of thread t
Splices(t) == pc[t] = "snap_cas" /\ pc'[t] = "idle"

\* one CAS puts the snapshot's nodes, in chain order, in front of the nodes
\* that are on the stack at that instant
SpliceInFront ==
  \A t \in DOMAIN pc :
    Splices(t) =>
      /\ top' = [head |-> snap[t], tag |-> top.tag + 1]
      /\ Chain(top.head)' = SnapSeq(t) \o Chain(top.head)
      /\ next' = next

\* while a snapshot is live, a next link of its chain is written only by its
\* owner, at the tail, in ~snapshot
ChainIsPrivate ==
  \A t \in DOMAIN pc :
    snap[t] \in Nodes =>
      \A n \in SnapNodes(t) :
        next'[n] # next[n] =>
          pc[t] = "snap_link" /\ pc'[t] = "snap_cas" /\ n = tail[t]

\* C27: destroying a snapshot returns its whole chain with one successful
\* CAS: right after it the stack is the snapshot's nodes in chain order
\* followed by exactly the nodes that were on the stack at that instant, and
\* until then no other thread writes a next link of the chain
C27_SpliceWholeChain == [][SpliceInFront /\ ChainIsPrivate]_vars

\* ~snapshot is at its CAS with a chain of two nodes, the top it expects, and
\* a stack that got nodes while the snapshot was live
C27_Witness ==
  \E t \in DOMAIN pc :
    /\ pc[t] = "snap_cas" /\ old[t] = top
    /\ top.head # Null
    /\ Len(SnapSeq(t)) >= 2


\* ---------------------------------------------------------------- progress

\* thread t is inside lease(), ~handle(), lease_all() or ~snapshot()
Busy(t) == ~Idle(t)

\* every call that has begun ends, unless the process has died
EndsOrDies == \A t \in Threads : Busy(t) ~> (Idle(t) \/ life = "crashed")


\* thread t is in the CAS loop of a pop (lease) or of a push (~handle)
InLoop(t) == pc[t] \in {"pop_read", "pop_cas", "rel_link", "rel_cas"}

\* thread t takes its pop or push CAS in this step
TakesCAS(t) == pc[t] \in {"pop_cas", "rel_cas"} /\ pc'[t] # pc[t]

\* the top a thread last read is never newer than the top; a CAS that fails
\* finds a tag above the one it read: another CAS succeeded since the read
FailsOnlyAfterSuccess ==
  \A t \in Threads :
    /\ InLoop(t) => old[t].tag <= top.tag
    /\ TakesCAS(t) /\ top' = top => old[t].tag < top.tag

\* a thread turns to the gate only with an empty top read, and a release
\* never turns to it
GateAfterEmptyRead ==
  \A t \in Threads :
    pc'[t] = "gate" /\ pc[t] # "gate" =>
      old'[t].head = Null /\ pc[t] \in {"idle", "pop_cas"}

\* once the other threads complete no further push or pop, a thread leaves
\* its CAS loop
LoopEnds ==
  \A t \in Threads : InLoop(t) ~> (~InLoop(t) \/ life = "crashed")

\* no thread waits on the gate while the stack is non-empty
NoWaitWhileNonEmpty == \A t \in Threads : pc[t] = "gate" => top.head = Null

\* C28 as stated: push and pop are lock-free, a CAS fails only after another
\* thread's CAS succeeded, and no push or pop ever waits on the gate while the
\* stack is non-empty
C28_LockFreeNeverWaits ==
  /\ [][FailsOnlyAfterSuccess]_vars
  /\ []NoWaitWhileNonEmpty
  /\ LoopEnds

\* C28 as amended: a CAS of lease() or ~handle fails only after another
\* thread's CAS succeeded since the thread read the top, so a thread stays in
\* its loop only while others complete; a lease() starts to wait on the gate
\* only after it read an empty top, and a release never uses the gate
C28_LockFree ==
  /\ [][FailsOnlyAfterSuccess]_vars
  /\ [][GateAfterEmptyRead]_vars
  /\ LoopEnds

\* a thread is at its CAS with a top that another thread's CAS has replaced
C28_Witness ==
  \E t \in Threads :
    /\ pc[t] \in {"pop_cas", "rel_cas"}
    /\ old[t].tag < top.tag


\* thread t takes the CAS of lease_all() in this step
TakesDrainCAS(t) == pc[t] = "all_cas" /\ (pc'[t] # pc[t] \/ old'[t] # old[t])

\* the CAS of lease_all() ends the call: the call takes its load and one CAS,
\* whatever other threads do in between
DrainInTwoSteps == \A t \in Threads : TakesDrainCAS(t) => pc'[t] = "idle"

\* C29 as stated: lease_all() completes within a bounded number of its own
\* steps regardless of how other threads' pushes and pops are interleaved
C29_DrainWaitFree == [][DrainInTwoSteps]_vars

\* the CAS of lease_all() succeeds when the top is the one the thread read;
\* it fails only on a newer tag, and then the call ends with an empty
\* snapshot if the stack is empty and else tries again with the top it found
DrainEndsOrReloads ==
  \A t \in Threads :
    TakesDrainCAS(t) =>
      IF old[t] = top
        THEN /\ top' = [head |-> Null, tag |-> top.tag + 1]
             /\ snap'[t] = top.head /\ pc'[t] = "idle"
        ELSE /\ old[t].tag < top.tag /\ top' = top
             /\ IF top.head = Null
                  THEN snap'[t] = Null /\ pc'[t] = "idle"
                  ELSE old'[t] = top /\ pc'[t] = "all_cas" /\ snap'[t] = snap[t]

\* once the other threads complete no further push or pop, the call ends
DrainEnds ==
  \A t \in Threads : pc[t] = "all_cas" ~> (pc[t] # "all_cas" \/ life = "crashed")

\* C29 as amended: lease_all() is lock-free, not wait-free: its CAS fails
\* only if another thread's CAS succeeded since it last read the top, each
\* such failure costs it one more step, and it completes once no other CAS
\* intervenes
C29_DrainLockFree == [][DrainEndsOrReloads]_vars /\ DrainEnds

\* lease_all() is at its CAS with a top that another thread has replaced by
\* a non-empty one: the CAS will fail and be tried again
C29_Witness ==
  \E t \in Threads :
    pc[t] = "all_cas" /\ old[t].tag < top.tag /\ top.head # Null


\* C30: under weak fairness, with finitely many operations per thread, every
\* started lease(), handle release, lease_all() and snapshot release
\* terminates: a thread that is inside an operation is outside it later
C30_AllTerminate == \A t \in Threads : Busy(t) ~> Idle(t)


\* thread t of the race_free container is at a compare_exchange on the top
RfAtCAS(t) == pc[t] \in {"get_cas", "put_cas", "get_publish_cas"}

\* the desired value that compare_exchange is called with
RfDesired(t) ==
  [head |-> CASE pc[t] = "get_cas" -> nxt[t]
              [] pc[t] = "put_cas" -> rel[t]
              [] OTHER -> NodeAt(blk[t], 1),
   tag |-> old[t].tag + 1]

\* where the caller goes on when compare_exchange returned true
RfOnTrue(t) == IF pc[t] = "get_publish_cas" THEN "get_unlock_ret" ELSE "idle"

\* the head the caller reads from expected after compare_exchange returned
\* true is the head it passed in
RfExpectedKept(t) ==
  CASE pc[t] = "get_cas" -> held'[t] = held[t] \cup {old[t].head}
    [] pc[t] = "put_cas" -> next'[rel[t]] = old[t].head
    [] OTHER -> old'[t] = old[t]

\* one compare_exchange: equal in head and tag, it writes desired and returns
\* true; else it leaves the top, stores the top in expected and returns false
CompareExchangeStep ==
  \A t \in DOMAIN pc :
    RfAtCAS(t) /\ pc'[t] # pc[t] =>
      IF top.head = old[t].head /\ top.tag = old[t].tag
        THEN top' = RfDesired(t) /\ pc'[t] = RfOnTrue(t) /\ RfExpectedKept(t)
        ELSE top' = top /\ old'[t] = top /\ pc'[t] # RfOnTrue(t)

\* C31: compare_exchange(expected, desired) writes desired to the top iff the
\* top equals expected in head and tag, and then returns true with expected
\* unchanged; otherwise the top stays, expected takes the observed value and
\* it returns false
C31_CompareExchange == [][CompareExchangeStep]_vars

\* a compare_exchange is about to run on a top that has the expected head
\* under a newer tag: the comparison of the tag decides
C31_Witness ==
  \E t \in DOMAIN pc :
    RfAtCAS(t) /\ old[t].head # Null /\ top.head = old[t].head /\ top.tag # old[t].tag


\* the nodes local() has constructed and nothing has destroyed
LiveTlsNodes == {n \in TlsNodes : nodeMem[n] = "live"}

\* the number of bucket lists node n is linked in, counting repeats
ShardLinks(n, i) == Occurrences(BucketList(i), n)

\* every node is once in the bucket of its owner's hash and in no other
InOwnShard ==
  \A n \in LiveTlsNodes :
    \A i \in Buckets :
      ShardLinks(n, i) = IF i = Hash(owner[n]) % BucketCount THEN 1 ELSE 0

\* every node is once in the list from root, which holds nothing else
SpineIsShards ==
  /\ \A n \in LiveTlsNodes : Occurrences(Entries, n) = 1
  /\ {Entries[k] : k \in 1..Len(Entries)} = Listed
  /\ Listed = LiveTlsNodes

\* no thread owns two nodes
OneNodePerOwner ==
  \A n, m \in LiveTlsNodes : owner[n] = owner[m] => n = m

\* C32: whenever no local() or clear() is in progress, every node created
\* by local() is in exactly one bucket list - that of hash(owner) mod N - and
\* exactly once in the list from root, that list holds exactly the nodes of
\* all bucket lists, and no thread owns more than one node
C32_ShardsAndSpine ==
  TlsQuiescent /\ built = "yes" => InOwnShard /\ SpineIsShards /\ OneNodePerOwner

\* all threads have their node, two of them in the same bucket
C32_Witness ==
  /\ TlsQuiescent /\ built = "yes"
  /\ Cardinality(LiveTlsNodes) = NumTlsThreads
  /\ \E i \in Buckets : Len(BucketList(i)) >= 2


\* the nodes an iteration from begin() visits
Iterated == {Entries[k] : k \in 1..Len(Entries)}

\* what is in the list from root is in a bucket list
SpineWithinShards == Iterated \subseteq Listed

\* a node that enters the list from root was in its bucket list before that
\* step: the two prepends are two steps, the bucket's first
ShardFirst ==
  \A n \in TlsNodes :
    n \notin Iterated /\ n \in Iterated' => n \in Listed /\ n \in Listed'

\* C33: a new node is linked into its bucket list before it is linked into
\* the list from root, in two separate atomic steps: in every state, also in
\* the middle of an insertion, a node reachable from root is reachable from
\* a bucket list
C33_ShardBeforeSpine == [](SpineWithinShards) /\ [][ShardFirst]_vars

\* between the two steps: the owner's lookup finds the node and an iteration
\* misses it
C33_Witness ==
  \E n \in TlsNodes :
    /\ nodeMem[n] = "live" /\ n \notin Iterated
    /\ Find(bucketHead[BucketOf(owner[n])], owner[n]) = n


\* the step destroys node n
Frees(n) == nodeMem[n] = "live" /\ nodeMem'[n] = "free"

HeadsNull == root = Null /\ \A i \in Buckets : bucketHead[i] = Null

\* no head points to a node that was destroyed
NoHeadAtFreed ==
  /\ root # Null => nodeMem[root] # "free"
  /\ \A i \in Buckets : bucketHead[i] # Null => nodeMem[bucketHead[i]] # "free"

FreesBehindOwnHead ==
  \A n \in TlsNodes :
    Frees(n) =>
      /\ ClearRunning
      /\ bucketHead[BucketOf(owner[n])] = Null
      /\ \A i \in Buckets : bucketHead'[i] # Null => nodeMem'[bucketHead'[i]] = "live"

\* when clear() returns all heads are null and every node is freed
ClearReturnsEmpty ==
  ClearRunning /\ ~ClearRunning' => HeadsNull' /\ \A n \in TlsNodes : nodeMem'[n] = "free"

Clear0Order ==
  /\ \A n \in TlsNodes : Frees(n) => ClearRunning /\ root = Null
  /\ ClearReturnsEmpty


\* no step outside clear() and ~tls unlinks, moves or frees a linked node
LocalKeepsNodes ==
  ~ClearRunning /\ ~ClearRunning' =>
    \A n \in Listed :
      /\ nodeMem'[n] = "live" /\ owner'[n] = owner[n]
      /\ \A i \in Buckets : ShardLinks(n, i)' = ShardLinks(n, i)
      /\ n \in Iterated => n \in Iterated'

\* the entries local() returned are alive while the container is in use
ReferencesValid ==
  built = "yes" /\ ~ClearRunning =>
    \A t \in DOMAIN results :
      \A k \in 1..Len(results[t]) : nodeMem[results[t][k][1]] = "live"

\* a deallocation inside clear() is of a node that is alive: none is freed twice
FreesOnce ==
  \A c \in DOMAIN tpc :
    tpc[c] = "clear_nodes" /\ tnode'[c] # tnode[c] => Frees(tnode[c])

\* a linked node is freed by clear() or ~tls alone, and these leave all heads
\* null and no node behind
FreedByClearOnly ==
  /\ \A n \in Listed : Frees(n) => ClearRunning
  /\ ClearRunning /\ ~ClearRunning' =>
       HeadsNull' /\ \A n \in TlsNodes : nodeMem'[n] = "free"

\* C35: a linked node is never unlinked, moved or freed by a local() call, so
\* a reference local() returned stays valid across other threads'
\* insertions; nodes are freed only by clear() or destruction, which free
\* every node exactly once and leave every bucket head and root null
C35_NodesStable ==
  [](ReferencesValid) /\ [][LocalKeepsNodes /\ FreesOnce /\ FreedByClearOnly]_vars

\* the container was destroyed and its destructor freed the entries of two
\* threads or more
C35_Witness ==
  built = "destroyed" /\ Cardinality(cleared) >= 2 /\ LiveTlsNodes = {}


\* the nodes of the handles of the threads other than t, a handle that is
\* being destroyed included
HeldByOthers(t) == UNION {held[u] : u \in DOMAIN pc \ {t}}

\* the nodes of all blocks
PoolNodes == {n \in Nodes : BlockOf(n) \in allocd}

\* lease() goes on to allocate only when other threads hold every node
AllocatesWhenAllHeld ==
  \A t \in DOMAIN pc :
    pc[t] = "recheck" /\ pc'[t] = "alloc" => PoolNodes \subseteq HeldByOthers(t)

\* the blocks stay within ceil(K / nodes_per_block), and no thread asks the
\* allocator for a block beyond that
BlocksBounded ==
  LET bound == CeilDiv(Cardinality(DOMAIN pc), NodesPerBlock)
  IN /\ Cardinality(allocd) <= bound
     /\ \A t \in DOMAIN pc : pc[t] = "alloc" => Cardinality(allocd) < bound

\* C36: without lease_all() and with at most one handle per thread, K threads
\* never have more than ceil(K / nodes_per_block) blocks allocated, because
\* lease() allocates a block only when every existing node is held by
\* another thread
C36_BoundedGrowth == [](BlocksBounded) /\ [][AllocatesWhenAllHeld]_vars

\* every thread holds a handle, one of them for the second time, and the
\* bound is reached
C36_Witness ==
  /\ \A t \in DOMAIN pc : pc[t] = "idle" /\ Cardinality(held[t]) = 1
  /\ Cardinality(allocd) = CeilDiv(Cardinality(DOMAIN pc), NodesPerBlock)
  /\ top.tag > Cardinality(allocd)


\* the handles of thread t that own node n
OwnersOf(t, n) == {k \in DOMAIN hnd[t] : hnd[t][k].owner /\ hnd[t][k].ptr = n}

\* thread t is pushing node n back
Pushing(t, n) == pc[t] \in {"put_link", "put_cas"} /\ rel[t] = n

\* every leased node has one owning handle until its push has begun, and a
\* handle owns nothing but a leased node
OneOwnerPerLease ==
  \A t \in DOMAIN pc :
    /\ \A n \in held[t] :
         Cardinality(OwnersOf(t, n)) = IF Pushing(t, n) THEN 0 ELSE 1
    /\ \A k \in DOMAIN hnd[t] : hnd[t][k].owner => hnd[t][k].ptr \in held[t]

\* a push puts back a node that is leased: none goes back twice
PushesLeased ==
  \A t \in DOMAIN pc :
    pc[t] = "put_cas" /\ pc'[t] = "idle" => rel[t] \in held[t]

\* the destructor of a handle without owner changes nothing, and that of an
\* owning handle begins the push of its node
DestroyPushesOwned ==
  \A t \in DOMAIN pc :
    Len(hnd'[t]) < Len(hnd[t]) =>
      \/ pc'[t] = "put_link" /\ rel'[t] \in held[t]
      \/ pc'[t] = pc[t] /\ top' = top /\ next' = next /\ held' = held

\* C37: moving a race_free handle, by move construction or move assignment,
\* never makes a leased node go back twice or not at all: each node get()
\* returned is pushed once, by the destructor of the handle that owns it in
\* the end; a handle emptied by move construction pushes nothing
C37_MovesPushOnce ==
  [](life # "crashed" /\ OneOwnerPerLease)
    /\ [][PushesLeased /\ DestroyPushesOwned]_vars

\* the same but for the end of the move assignment, which is undefined
MovesPushOnceIfAlive ==
  [](OneOwnerPerLease) /\ [][PushesLeased /\ DestroyPushesOwned]_vars

\* ------------------------------------------------------------------ C38

\* the nodes of thread t that are linked in the buckets of array a
EntriesIn(a, t) ==
  {n \in TlsNodes : owner[n] = t /\ nodeMem[n] = "live"
                    /\ \E i \in Buckets : n \in Range(Walk(bucketNext, arrHead[a][i]))}

\* the threads between new atomic_forward_list[] and the end of the if block
HasSpare(t) == tpc[t] \in {"arr_cas", "arr_delete"}

\* the threads inside bptr[ind].local(init)
InListLocal(t) == tpc[t] \in {"find", "new", "new_load", "new_cas"}

\* the container takes a bucket array only while it has none, and takes
\* the live array of the installing thread; it loses one only to the move
InstallsOnce ==
  buckets' # buckets =>
    \/ buckets = Null /\ buckets' \in TlsThreads /\ arrMem'[buckets'] = "live"
                      /\ tpc[buckets'] = "arr_cas"
    \/ buckets' = Null /\ copies' = copies + 1

\* every thread inside the list's local() works on the installed array
SameArray ==
  \A t \in TlsThreads : InListLocal(t) => (buckets # Null /\ bptr[t] = buckets)

\* an array that a thread allocated is the installed one or is still in the
\* hands of that thread, which is on its way to delete[]; a deleted array
\* is not the installed one
LosersDelete ==
  /\ \A a \in TlsThreads :
       /\ arrMem[a] = "live" => (a = buckets \/ HasSpare(a))
       /\ arrMem[a] = "deleted" => a # buckets
  /\ \A t \in TlsThreads : tpc[t] = "arr_delete" => (arrMem[t] = "live" /\ buckets # t)

\* a thread whose call on the container has returned has exactly one entry
\* in the installed array, the one the call returned
OneEntryEach ==
  \A t \in TlsThreads :
    (tpc[t] = "idle" /\ buckets # Null /\ bptr[t] = buckets) =>
      (results[t] # <<>> /\ EntriesIn(buckets, t) = {Mine(t)})

AllGone == gone = {1, 2}

\* C39: once every container of the movable variant is destroyed, the
\* temporaries of the assignments included, no bucket array and no node is
\* left allocated
C39_NoLeak ==
  AllGone => /\ \A a \in DOMAIN arrMem : arrMem[a] # "live"
             /\ \A n \in TlsNodes : nodeMem[n] = "free"

\* a destructor, that of the assignment's parameter included, frees nothing:
\* what was allocated stays allocated
DestructorsFreeNothing ==
  (gone' # gone \/ copies' # copies) =>
    /\ \A a \in DOMAIN arrMem : arrMem[a] = "live" => arrMem'[a] = "live"
    /\ \A n \in TlsNodes : nodeMem[n] = "live" => nodeMem'[n] = "live"

NothingEverFreed == [][DestructorsFreeNothing]_vars

\* ------------------------------------------------------------------ C40

\* the entries linked from head over next
ListEntries == Walk(bucketNext, listHead)

\* what the traversal has seen, followed by what is linked behind its
\* iterator, is the list: every ++ went to the node named by the next link
FollowsLinks == walk.seen \o Walk(bucketNext, walk.ptr) = ListEntries

\* C40: a traversal from begin() moves along the next links, so that it
\* visits every linked entry exactly once and reaches end() after the last
C40_IterationFollowsLinks ==
  /\ walk.state # "crashed"
  /\ walk.state = "walking" => (FollowsLinks /\ walk.ptr \in TlsNodes \cup {Null})
  /\ walk.state = "ended" => walk.seen = ListEntries

\* a traversal ends at end() only when the container is empty
EndsOnlyWhenEmpty == walk.state = "ended" => ListEntries = <<>>

====
